---- MODULE Spec2Model ----
(***************************************************************************)
(* EQNet post-processing (eqnet/utils/postprocess.py): peak detection on a *)
(* score tensor (detect_peaks), materialisation of picks (extract_picks)   *)
(* and the merge of per-unit pick files (merge_das_picks,                  *)
(* merge_seismic_picks).                                                   *)
(*                                                                         *)
(* Tensors are records [shape |-> <<...>>, val |-> function on 0-based     *)
(* index tuples].  Scores are integers in units of 1/3000, so that the     *)
(* three-decimal formatting of a score is a genuine rounding.              *)
(***************************************************************************)
EXTENDS Integers, Sequences, FiniteSets, TLC

\* ------------------------------------------------------------------ bounds
MaxT == 4
MaxCells == 6
MaxScore == 2
MaxKernel == 3
MaxK == 2
MaxNtPicks == 3
MaxTopK == 3
MaxRows == 2
MaxMinPicks == 2
MaxNt == 1200

VARIABLES
  pc,            \* position of the modelled call
  scores,        \* detect_peaks: the input score tensor [nb, nc, nt, nx]
  kernel,        \* detect_peaks: argument
  stride,        \* detect_peaks: argument
  K,             \* detect_peaks: argument
  scores_kept,   \* detect_peaks: the local `scores` after line 23 (scores * keep)
  topk_scores,   \* detect_peaks: returned scores, <<b, j, s>> -> sequence of K
  topk_inds,     \* detect_peaks: returned time indices, same layout
  topk_index,    \* extract_picks: argument, <<i, j, k>> -> sequence of ntopk indices
  topk_score,    \* extract_picks: argument, <<i, j, k>> -> sequence of ntopk scores
  args,          \* extract_picks: the other arguments, a record named as the parameters
  picks,         \* extract_picks: the returned list (per batch element) of pick lists
  fs,            \* the file system: <<directory, file name>> -> list of lines
  call,          \* the last merge call: function, arguments, files it wrote
  num_picks,     \* the pick count the last merge call printed
  run,           \* prediction run: the arguments (model, distributed, cut_patch, world size)
  rank_pc,       \* prediction run: position of every process (rank)
  todo,          \* prediction run: per rank, the units of work not yet written
  latest,        \* prediction run: per unit written, the picks of its latest processing
  merged_by,     \* prediction run: the ranks that called merge_picks, in call order
  T              \* default budget: the time length nt of lines 25-28

dvars == <<scores, kernel, stride, K, scores_kept, topk_scores, topk_inds, T>>
evars == <<topk_index, topk_score, args, picks>>
mvars == <<fs, call, num_picks>>
pvars == <<run, rank_pc, todo, latest, merged_by>>
vars == <<pc, dvars, evars, mvars, pvars>>

\* An optional value: <<>> when absent (None), <<x>> when given.
None == <<>>

Some(x) == <<x>>

IsNone(o) == Len(o) = 0

\* ----------------------------------------------------------------- helpers
Range0(n) == 0 .. (n - 1)

SetMax(S) == CHOOSE x \in S : \A y \in S : y <= x

SetMin(S) == CHOOSE x \in S : \A y \in S : x <= y

Max2(a, b) == IF a >= b THEN a ELSE b

Min2(a, b) == IF a <= b THEN a ELSE b

Idx(sh) == Range0(sh[1]) \X Range0(sh[2]) \X Range0(sh[3]) \X Range0(sh[4])

\* Python's round() of the float a / b (a, b >= 0): to nearest, ties to even.
RoundHalfEven(a, b) ==
  LET q == a \div b
      r == a % b
  IN  IF 2 * r < b THEN q
      ELSE IF 2 * r > b THEN q + 1
      ELSE IF q % 2 = 0 THEN q ELSE q + 1

\* The functions f on the finite set G with f[g] \in out[g].
RECURSIVE Choices(_, _)
Choices(G, out) ==
  IF G = {} THEN {<<>>}
  ELSE LET g == CHOOSE x \in G : TRUE
       IN  {f @@ (g :> q) : f \in Choices(G \ {g}, out), q \in out[g]}

\* ------------------------------------------------------------ detect_peaks
\* max_pool2d pads with negative infinity: a value below every score.
NegInf == -1

\* pad = kernel // 2 (Python floor division).
Pad(k) == k \div 2

\* Output length of max_pool2d along time: floor((nt + 2 pad - kernel) / stride) + 1.
PoolLen(nt, k, st) == ((nt + 2 * Pad(k) - k) \div st) + 1

\* The padded series of (b, c, s): position p of 0 .. nt + 2 pad - 1.
Padded(x, k, b, c, s, p) ==
  LET nt == x.shape[3]
  IN  IF p >= Pad(k) /\ p < Pad(k) + nt THEN x.val[<<b, c, p - Pad(k), s>>] ELSE NegInf

\* F.max_pool2d(x, (kernel, 1), stride=(stride, 1), padding=(pad, 0)): output
\* element o is the maximum of padded positions o*stride .. o*stride + kernel - 1.
max_pool2d(x, k, st) ==
  [i \in Range0(x.shape[1]) \X Range0(x.shape[2])
         \X Range0(PoolLen(x.shape[3], k, st)) \X Range0(x.shape[4]) |->
     SetMax({Padded(x, k, i[1], i[2], i[4], p) :
               p \in (i[3] * st) .. (i[3] * st + k - 1)})]

\* max_pool2d rejects a non-positive kernel or stride and an empty output.
PoolRaises(nt, k, st) ==
  IF k <= 0 \/ st <= 0 THEN TRUE
  ELSE IF 2 * Pad(k) > k THEN TRUE
  ELSE PoolLen(nt, k, st) <= 0

\* Length of smax after the slice [:, :, :nt, :].
SmaxLen(nt, k, st) == Min2(PoolLen(nt, k, st), nt)

\* smax == scores broadcasts a time axis of length 1 and raises on any other mismatch.
BroadcastRaises(nt, k, st) == SmaxLen(nt, k, st) # nt /\ SmaxLen(nt, k, st) # 1

\* keep = (smax == scores).float(); scores = scores * keep (lines 21-23).
SuppressMutGeq(x, k, st) ==
  LET nt == x.shape[3]
      smax == max_pool2d(x, k, st)
      bc == SmaxLen(nt, k, st) # nt
  IN  [i \in Idx(x.shape) |->
         IF smax[<<i[1], i[2], IF bc THEN 0 ELSE i[3], i[4]>>] >= x.val[i]
         THEN x.val[i] ELSE 0]

Suppress(x, k, st) ==
  LET nt == x.shape[3]
      smax == max_pool2d(x, k, st)
      bc == SmaxLen(nt, k, st) # nt
  IN  [i \in Idx(x.shape) |->
         IF smax[<<i[1], i[2], IF bc THEN 0 ELSE i[3], i[4]>>] = x.val[i]
         THEN x.val[i] ELSE 0]

\* if K == 0: K = max(round(nt * 10.0 / 3000.0), 3)
KeffMutNoMin(k_, nt) == IF k_ = 0 THEN RoundHalfEven(nt * 10, 3000) ELSE k_

Keff(k_, nt) == IF k_ = 0 THEN Max2(RoundHalfEven(nt * 10, 3000), 3) ELSE k_

\* torch.topk raises when k is not within 0 .. nt.
TopKRaisesMutClamp(k_, nt) == Keff(k_, nt) < 0

TopKRaises(k_, nt) == Keff(k_, nt) > nt \/ Keff(k_, nt) < 0

\* Channel of the input tensor that output class j is taken from:
\* all of the tensor when chn == 1, scores[:, 1:] otherwise.
SrcChannelMutZero(chn, j) == j

SrcChannel(chn, j) == IF chn = 1 THEN j ELSE j + 1

\* Number of output classes.
OutChannels(chn) == IF chn = 1 THEN 1 ELSE chn - 1

\* The n-th largest value of the series, counted with multiplicity.
NthLargestMutSmallest(v, R, n) ==
  CHOOSE m \in {v[u] : u \in R} :
    /\ Cardinality({u \in R : v[u] < m}) < n
    /\ n <= Cardinality({u \in R : v[u] <= m})

NthLargest(v, R, n) ==
  CHOOSE m \in {v[u] : u \in R} :
    /\ Cardinality({u \in R : v[u] > m}) < n
    /\ n <= Cardinality({u \in R : v[u] >= m})

\* torch.topk(v, k) on one series v (a function on the index set R): the k largest
\* values in descending order; which of several equal values comes first, or is
\* left out, is not specified, so every such order is an outcome: position n
\* holds any index whose value is the n-th largest, no index twice.
TopKSeqs(v, R, k) ==
  LET len == Min2(k, Cardinality(R))
      at == [n \in 1 .. len |->
               UNION {{u \in R : v[u] = m} : m \in {NthLargest(v, R, n)}}]
  IN  {q \in Choices(1 .. len, at) : \A x, y \in 1 .. len : x # y => q[x] # q[y]}

TopKLenMutOver(k_, nt) == Min2(Keff(k_, nt) + 1, nt)

TopKLen(k_, nt) == Keff(k_, nt)

\* The (batch, class, station) groups of the output.
Groups(sh) == Range0(sh[1]) \X Range0(OutChannels(sh[2])) \X Range0(sh[4])

\* Every index layout torch.topk may return for the suppressed tensor `kept`.
TopKIndexChoices(sh, kept, k_) ==
  Choices(Groups(sh),
          [g \in Groups(sh) |->
             TopKSeqs([t \in Range0(sh[3]) |->
                         kept[<<g[1], SrcChannel(sh[2], g[2]), t, g[3]>>]],
                      Range0(sh[3]), TopKLen(k_, sh[3]))])

\* The scores that go with an index layout.
TopKScoresOf(sh, kept, inds) ==
  [g \in Groups(sh) |->
     [n \in 1 .. Len(inds[g]) |->
        kept[<<g[1], SrcChannel(sh[2], g[2]), inds[g][n], g[3]>>]]]

DetectRaises(x, k, st, k_) ==
  IF PoolRaises(x.shape[3], k, st) THEN TRUE
  ELSE IF BroadcastRaises(x.shape[3], k, st) THEN TRUE
  ELSE TopKRaises(k_, x.shape[3])

\* ------------------------------------------------------------------ inputs
Shapes ==
  {sh \in {1, 2} \X {1, 2} \X (1 .. MaxT) \X {1, 2} :
     sh[1] * sh[2] * sh[3] * sh[4] <= MaxCells}

ScoreTensors ==
  UNION {{[shape |-> sh, val |-> f] : f \in [Idx(sh) -> 0 .. MaxScore]} : sh \in Shapes}

Kernels == (0 - 1) .. MaxKernel

Strides == {0 - 1, 0, 1, 2, 3}

Ks == 0 .. MaxK

\* ----------------------------------------------------------------- actions
InitDetect ==
  /\ pc = "ready"
  /\ scores \in ScoreTensors
  /\ kernel = None
  /\ T = None
  /\ stride = None
  /\ K = None
  /\ scores_kept = None
  /\ topk_scores = None
  /\ topk_inds = None
  /\ topk_index = None
  /\ topk_score = None
  /\ args = None
  /\ picks = None
  /\ fs = None
  /\ call = None
  /\ num_picks = None
  /\ run = None
  /\ rank_pc = None
  /\ todo = None
  /\ latest = None
  /\ merged_by = None

\* detect_peaks(scores, kernel=k, stride=st, K=k_) returning normally.
DetectPeaks ==
  /\ pc = "ready"
  /\ \E k \in Kernels, st \in Strides, k_ \in Ks :
       /\ ~DetectRaises(scores, k, st, k_)
       /\ kernel' = k
       /\ stride' = st
       /\ K' = k_
       /\ scores_kept' = Suppress(scores, k, st)
       /\ \E inds \in TopKIndexChoices(scores.shape, Suppress(scores, k, st), k_) :
            /\ topk_inds' = [g \in Groups(scores.shape) |->
                               [n \in 1 .. Len(inds[g]) |-> inds[g][n] % scores.shape[3]]]
            /\ topk_scores' = TopKScoresOf(scores.shape, Suppress(scores, k, st), inds)
  /\ pc' = "done"
  /\ UNCHANGED <<scores, T, evars, mvars, pvars>>

\* detect_peaks ending in an exception of max_pool2d, of the comparison or of topk.
DetectPeaksRaises ==
  /\ pc = "ready"
  /\ \E k \in Kernels, st \in Strides, k_ \in Ks :
       /\ DetectRaises(scores, k, st, k_)
       /\ kernel' = k
       /\ stride' = st
       /\ K' = k_
  /\ pc' = "error"
  /\ UNCHANGED <<scores, scores_kept, topk_scores, topk_inds, T, evars, mvars, pvars>>

NextDetect == DetectPeaks \/ DetectPeaksRaises

SpecDetect == InitDetect /\ [][NextDetect]_vars

\* ------------------------------------------- detect_peaks: the default budget
\* Lines 25-28 on their own, for time lengths up to MaxNt: K is the argument
\* before the step and the budget topk is called with after it.
BudgetKs == {0, 1}

InitBudget ==
  /\ pc = "ready"
  /\ T \in 1 .. MaxNt
  /\ K \in BudgetKs
  /\ scores = None
  /\ kernel = None
  /\ stride = None
  /\ scores_kept = None
  /\ topk_scores = None
  /\ topk_inds = None
  /\ topk_index = None
  /\ topk_score = None
  /\ args = None
  /\ picks = None
  /\ fs = None
  /\ call = None
  /\ num_picks = None
  /\ run = None
  /\ rank_pc = None
  /\ todo = None
  /\ latest = None
  /\ merged_by = None

\* if K == 0: K = max(round(nt * 10.0 / 3000.0), 3)
DefaultBudget ==
  /\ pc = "ready"
  /\ K' = Keff(K, T)
  /\ pc' = "budget"
  /\ UNCHANGED <<scores, kernel, stride, scores_kept, topk_scores, topk_inds, T,
                 evars, mvars, pvars>>

NextBudget == DefaultBudget

SpecBudget == InitBudget /\ [][NextBudget]_vars

\* ----------------------------------------------------------- extract_picks
\* Shape of the topk arguments: batch, nch, nst, ntopk = topk_score.shape.
Dim(f, d) == SetMax({g[d] : g \in DOMAIN f}) + 1

NTopk(f) == Len(f[CHOOSE g \in DOMAIN f : TRUE])

\* dt is one float, broadcast to the batch, or one value per batch element
\* (lines 68-71).  Times are integers in microseconds.
DtOf(a, i) == IF a.dt.scalar THEN a.dt.v[1] ELSE a.dt.v[i + 1]

\* begin_channel_index / begin_time_index default to 0 per batch element
\* (lines 72-79).
BeginChannelIndex(a, i) ==
  IF IsNone(a.begin_channel_index) THEN 0 ELSE a.begin_channel_index[1][i + 1]

BeginTimeIndex(a, i) ==
  IF IsNone(a.begin_time_index) THEN 0 ELSE a.begin_time_index[1][i + 1]

\* waveform_amp = torch.max(torch.abs(waveform), dim=1)[0] (line 82).
Abs(x) == IF x < 0 THEN -x ELSE x

WaveformAmp(a, i, t, k) ==
  SetMax({Abs(a.waveform[1].val[<<i, c, t, k>>]) : c \in Range0(a.waveform[1].shape[2])})

\* if len(window_amp) == 1: one window for every phase (lines 85-86).
WindowAmp(a) ==
  IF ~IsNone(a.waveform) /\ Len(a.window_amp) = 1
  THEN [n \in 1 .. Len(a.phases) |-> a.window_amp[1]]
  ELSE a.window_amp

\* window_amp_i = int(window_amp[j] / dt[i]) (line 105).
WindowAmpI(a, i, j) == WindowAmp(a)[j + 1] \div DtOf(a, i)

\* str.rstrip("Z") and datetime.fromisoformat on the timestamp strings of the
\* model; a datetime is [date, ms of the day, us of the millisecond], and ok is
\* FALSE when fromisoformat raises ValueError.
RStripZ(str) ==
  CASE str = "2024-01-01T00:00:00.000Z" -> "2024-01-01T00:00:00.000"
    [] str = "2024-01-01T00:00:01.000ZZ" -> "2024-01-01T00:00:01.000"
    [] str = "Z" -> ""
    [] OTHER -> str

FromIsoFormat(str) ==
  CASE str = "1970-01-01T00:00:00.000" ->
         [ok |-> TRUE, date |-> "1970-01-01", ms |-> 0, us |-> 0]
    [] str = "2024-01-01T00:00:00.000" ->
         [ok |-> TRUE, date |-> "2024-01-01", ms |-> 0, us |-> 0]
    [] str = "2024-01-01T00:00:01.000" ->
         [ok |-> TRUE, date |-> "2024-01-01", ms |-> 1000, us |-> 0]
    [] OTHER -> [ok |-> FALSE, date |-> "ValueError", ms |-> 0, us |-> 0]

\* Lines 95-101: the anchor of batch element i.
BeginIMutSilentDefault(a, i) ==
  LET str == IF IsNone(a.begin_time) THEN "1970-01-01T00:00:00.000"
             ELSE a.begin_time[1][i + 1]
  IN  IF FromIsoFormat(RStripZ(str)).ok THEN FromIsoFormat(RStripZ(str))
      ELSE FromIsoFormat("1970-01-01T00:00:00.000")

BeginI(a, i) ==
  LET str == IF IsNone(a.begin_time) THEN "1970-01-01T00:00:00.000"
             ELSE IF a.begin_time[1][i + 1] = "" THEN "1970-01-01T00:00:00.000"
             ELSE a.begin_time[1][i + 1]
  IN  FromIsoFormat(RStripZ(str))

\* begin_i + timedelta(seconds=index * dt[i]), then isoformat(timespec=
\* "milliseconds"), which drops the microseconds (lines 120-122).  Times stay
\* within the anchor's day.
PickTimeMutNoDt(begin, index, dt) ==
  [date |-> begin.date, ms |-> begin.ms + (begin.us + index) \div 1000]

PickTime(begin, index, dt) ==
  [date |-> begin.date, ms |-> begin.ms + (begin.us + index * dt) \div 1000]

\* f"{x:.3f}" of a value in units of 1/3000: the nearest thousandth, in thousandths.
Format3f(v) == IF v >= 0 THEN (v + 1) \div 3 ELSE -((1 - v) \div 3)

\* f"{x:.3e}" of a non-negative amplitude: four significant digits and an exponent.
Format3e(x) ==
  IF x < 10 THEN [mant |-> x * 1000, exp |-> 0]
  ELSE IF x < 100 THEN [mant |-> x * 100, exp |-> 1]
  ELSE IF x < 1000 THEN [mant |-> x * 10, exp |-> 2]
  ELSE IF x < 10000 THEN [mant |-> x, exp |-> 3]
  ELSE [mant |-> RoundHalfEven(x, 10), exp |-> 4]

\* f"{n:04d}" for 0 <= n < 10000: the four decimal digits.
ZeroPad4(n) == <<(n \div 1000) % 10, (n \div 100) % 10, (n \div 10) % 10, n % 10>>

\* Lines 108-111.
StationIMutNoOffset(a, i, k) ==
  IF IsNone(a.station_id) THEN ZeroPad4(k) ELSE a.station_id[1][k + 1][i + 1]

StationI(a, i, k) ==
  IF IsNone(a.station_id) THEN ZeroPad4(k + BeginChannelIndex(a, i))
  ELSE a.station_id[1][k + 1][i + 1]

\* torch.sort(topk_index[i, j, k]): the positions in ascending order of index
\* (line 113); equal indices keep their order.
SortPermMutDesc(idx) ==
  [n \in 1 .. Len(idx) |->
     CHOOSE p \in 1 .. Len(idx) :
       Cardinality({q \in 1 .. Len(idx) :
                      idx[q] > idx[p] \/ (idx[q] = idx[p] /\ q < p)}) = n - 1]

SortPerm(idx) ==
  [n \in 1 .. Len(idx) |->
     CHOOSE p \in 1 .. Len(idx) :
       Cardinality({q \in 1 .. Len(idx) :
                      idx[q] < idx[p] \/ (idx[q] = idx[p] /\ q < p)}) = n - 1]

\* topk_index_ijk and topk_score_ijk (lines 113-114).
TopkIndexIJK(ti, g) ==
  LET ii == SortPerm(ti[g]) IN [n \in 1 .. Len(ti[g]) |-> ti[g][ii[n]]]

TopkScoreIJK(ti, ts, g) ==
  LET ii == SortPerm(ti[g]) IN [n \in 1 .. Len(ts[g]) |-> ts[g][ii[n]]]

\* if score > vmin (line 118).
AboveVminMutGeq(score, vmin) == score >= vmin

AboveVmin(score, vmin) == score > vmin

\* Lines 137-138: the slice [j1, j2) of the amplitude window of sorted entry n.
AmpJ2(sorted, n, w) ==
  IF n < Len(sorted) THEN Min2(sorted[n] + w, sorted[n + 1]) ELSE sorted[n] + w

AmpSliceMutExclusive(a, sorted, n, w) ==
  {t \in Range0(a.waveform[1].shape[3]) : sorted[n] < t /\ t < AmpJ2(sorted, n, w)}

\* The time indices waveform_amp[i, j1:j2, k] reads: the slice clipped to the axis.
AmpSlice(a, sorted, n, w) ==
  {t \in Range0(a.waveform[1].shape[3]) : sorted[n] <= t /\ t < AmpJ2(sorted, n, w)}

\* Lines 119-139: the pick made from entry n of the sorted group g = <<i, j, k>>,
\* whose sorted indices and scores are `sorted` and `sscore`.
PickDictMutTimeOfPickIndex(a, g, sorted, sscore, n) ==
  LET i == g[1]
      j == g[2]
      k == g[3]
      index == sorted[n]
      base == [station_id |-> StationI(a, i, k),
               phase_index |-> index + BeginTimeIndex(a, i),
               phase_time |-> PickTime(BeginI(a, i), index + BeginTimeIndex(a, i), DtOf(a, i)),
               phase_score |-> Format3f(sscore[n]),
               phase_type |-> a.phases[j + 1]]
      pol == IF IsNone(a.polarity_score) THEN <<>>
             ELSE [phase_polarity |-> Format3f(a.polarity_score[1][<<i, 0, index, k>>])]
      amp == IF IsNone(a.waveform) THEN <<>>
             ELSE [phase_amplitude |->
                     Format3e(SetMax({WaveformAmp(a, i, t, k) :
                                        t \in AmpSlice(a, sorted, n, WindowAmpI(a, i, j))}))]
  IN  base @@ pol @@ amp

PickDict(a, g, sorted, sscore, n) ==
  LET i == g[1]
      j == g[2]
      k == g[3]
      index == sorted[n]
      base == [station_id |-> StationI(a, i, k),
               phase_index |-> index + BeginTimeIndex(a, i),
               phase_time |-> PickTime(BeginI(a, i), index, DtOf(a, i)),
               phase_score |-> Format3f(sscore[n]),
               phase_type |-> a.phases[j + 1]]
      pol == IF IsNone(a.polarity_score) THEN <<>>
             ELSE [phase_polarity |-> Format3f(a.polarity_score[1][<<i, 0, index, k>>])]
      amp == IF IsNone(a.waveform) THEN <<>>
             ELSE [phase_amplitude |->
                     Format3e(SetMax({WaveformAmp(a, i, t, k) :
                                        t \in AmpSlice(a, sorted, n, WindowAmpI(a, i, j))}))]
  IN  base @@ pol @@ amp

\* The picks of group g in the order they are appended (lines 113-141): the
\* sorted entries that pass the threshold, each made into a pick.
GroupPicks(ti, ts, a, g) ==
  LET sorted == TopkIndexIJK(ti, g)
      sscore == TopkScoreIJK(ti, ts, g)
      emitted == SelectSeq([n \in 1 .. Len(sorted) |-> n],
                           LAMBDA n : AboveVmin(sscore[n], a.vmin))
  IN  [m \in 1 .. Len(emitted) |-> PickDict(a, g, sorted, sscore, emitted[m])]

\* Concatenation of f[0], ..., f[n - 1].
RECURSIVE ConcatSeqs(_, _)
ConcatSeqs(f, n) == IF n = 0 THEN <<>> ELSE ConcatSeqs(f, n - 1) \o f[n - 1]

\* picks_per_file of batch element i: for j in range(nch), for k in range(nst)
\* (lines 103-141).
PicksPerFile(ti, ts, a, i) ==
  ConcatSeqs([j \in Range0(Dim(ti, 2)) |->
                ConcatSeqs([k \in Range0(Dim(ti, 3)) |-> GroupPicks(ti, ts, a, <<i, j, k>>)],
                           Dim(ti, 3))],
             Dim(ti, 2))

\* The call raises when a timestamp does not parse (line 101), when an emitted
\* pick's class has no phase name or window (lines 105, 129), or when an emitted
\* pick's amplitude slice is empty (torch.max of an empty tensor, line 139).
GroupRaises(ti, ts, a, g) ==
  LET sorted == TopkIndexIJK(ti, g)
      sscore == TopkScoreIJK(ti, ts, g)
  IN  IF ~BeginI(a, g[1]).ok THEN TRUE
      ELSE IF ~IsNone(a.waveform) /\ g[2] + 1 > Len(WindowAmp(a)) THEN TRUE
      ELSE {n \in 1 .. Len(sorted) :
              IF ~AboveVmin(sscore[n], a.vmin) THEN FALSE
              ELSE IF g[2] + 1 > Len(a.phases) THEN TRUE
              ELSE IF IsNone(a.waveform) THEN FALSE
              ELSE AmpSlice(a, sorted, n, WindowAmpI(a, g[1], g[2])) = {}} # {}

ExtractRaises(ti, ts, a) == {g \in DOMAIN ti : GroupRaises(ti, ts, a, g)} # {}

\* extract_picks(topk_index, topk_score, ...): the list of picks_per_file.
extract_picks(ti, ts, a) == [n \in 1 .. Dim(ti, 1) |-> PicksPerFile(ti, ts, a, n - 1)]

\* ----------------------------------------------------- extract_picks inputs
\* Shapes <<batch, nch, nst, ntopk>> of the topk arguments.
TopkShapes ==
  {<<1, 1, 1, n>> : n \in 1 .. MaxTopK}
    \cup {<<2, 1, 1, 1>>, <<1, 1, 2, 2>>, <<1, 2, 2, 1>>}

TopkGroups(sh) == Range0(sh[1]) \X Range0(sh[2]) \X Range0(sh[3])

\* topk returns pairwise distinct time indices of 0 .. nt - 1, in any order.
IndexSeqs(n) ==
  {q \in [1 .. n -> Range0(MaxNtPicks)] : \A x, y \in 1 .. n : x # y => q[x] # q[y]}

PickScores == {0, 1, 2}

\* Two waveforms of two components over MaxNtPicks samples: the envelope of
\* "up" grows with time, the envelope of "down" falls.
WaveformUp(sh) ==
  [shape |-> <<sh[1], 2, MaxNtPicks, sh[3]>>,
   val |-> [x \in Range0(sh[1]) \X {0, 1} \X Range0(MaxNtPicks) \X Range0(sh[3]) |->
              IF x[2] = 0 THEN -(x[3] + 1 + 10 * x[4] + 100 * x[1]) ELSE x[3]]]

WaveformDown(sh) ==
  [shape |-> <<sh[1], 2, MaxNtPicks, sh[3]>>,
   val |-> [x \in Range0(sh[1]) \X {0, 1} \X Range0(MaxNtPicks) \X Range0(sh[3]) |->
              IF x[2] = 1 THEN MaxNtPicks - x[3] + 10 * x[4] + 100 * x[1] ELSE -1]]

\* predict.py calls with vmin, dt, phases and, per caller, begin_time, the two
\* offsets and polarity_score; app.py adds the waveform.
PlainArgs(vmin, dt) ==
  [vmin |-> vmin, dt |-> [scalar |-> TRUE, v |-> <<dt>>], phases |-> <<"P", "S">>,
   begin_time |-> None, station_id |-> None, polarity_score |-> None,
   waveform |-> None, window_amp |-> <<10000000, 5000000>>,
   begin_channel_index |-> None, begin_time_index |-> None]

FullArgs(sh, vmin, dt) ==
  [PlainArgs(vmin, dt) EXCEPT
     !.dt = [scalar |-> FALSE, v |-> [n \in 1 .. sh[1] |-> dt]],
     !.begin_time = Some([n \in 1 .. sh[1] |->
                            IF n = 1 THEN "2024-01-01T00:00:00.000Z" ELSE ""]),
     !.station_id = Some([k \in 1 .. sh[3] |-> [n \in 1 .. sh[1] |-> <<"STA", k, n>>]]),
     !.polarity_score =
        Some([x \in Range0(sh[1]) \X {0} \X Range0(MaxNtPicks) \X Range0(sh[3]) |->
                4 * x[3] - 5]),
     !.begin_channel_index = Some([n \in 1 .. sh[1] |-> 7 * n]),
     !.begin_time_index = Some([n \in 1 .. sh[1] |-> 5 * n])]

Vmins == {0, 1}

Dts == {2500, 10000}

WindowAmps == {<<5000, 2500>>, <<10000>>}

ExtractArgs(sh) ==
  {PlainArgs(v, d) : v \in Vmins, d \in Dts}
    \cup {FullArgs(sh, v, 2500) : v \in Vmins}
    \cup {[PlainArgs(v, d) EXCEPT !.waveform = Some(WaveformUp(sh)), !.window_amp = wa] :
            v \in Vmins, d \in Dts, wa \in WindowAmps}
    \cup {[PlainArgs(v, 10000) EXCEPT !.waveform = Some(WaveformDown(sh)),
                                      !.window_amp = <<10000>>] : v \in Vmins}

ShapeOf(f) == <<Dim(f, 1), Dim(f, 2), Dim(f, 3), NTopk(f)>>

InitExtract ==
  /\ pc = "ready"
  /\ \E sh \in TopkShapes :
       /\ topk_index \in [TopkGroups(sh) -> IndexSeqs(sh[4])]
       /\ topk_score \in [TopkGroups(sh) -> [1 .. sh[4] -> PickScores]]
  /\ args = None
  /\ picks = None
  /\ scores = None
  /\ kernel = None
  /\ T = None
  /\ stride = None
  /\ K = None
  /\ scores_kept = None
  /\ topk_scores = None
  /\ topk_inds = None
  /\ fs = None
  /\ call = None
  /\ num_picks = None
  /\ run = None
  /\ rank_pc = None
  /\ todo = None
  /\ latest = None
  /\ merged_by = None

\* extract_picks(topk_index, topk_score, **a) returning its list of pick lists.
ExtractPicks ==
  /\ pc = "ready"
  /\ \E a \in ExtractArgs(ShapeOf(topk_index)) :
       /\ ~ExtractRaises(topk_index, topk_score, a)
       /\ args' = a
       /\ picks' = extract_picks(topk_index, topk_score, a)
  /\ pc' = "done"
  /\ UNCHANGED <<topk_index, topk_score, dvars, mvars, pvars>>

\* extract_picks ending in an exception.
ExtractPicksRaises ==
  /\ pc = "ready"
  /\ \E a \in ExtractArgs(ShapeOf(topk_index)) :
       /\ ExtractRaises(topk_index, topk_score, a)
       /\ args' = a
  /\ pc' = "error"
  /\ UNCHANGED <<topk_index, topk_score, picks, dvars, mvars, pvars>>

NextExtract == ExtractPicks \/ ExtractPicksRaises

SpecExtract == InitExtract /\ [][NextExtract]_vars

\* ------------------------------------------- extract_picks: optional inputs
\* Calls on two batch elements, one class and two stations with one top-K entry
\* per group, for every subset of the optional inputs and a begin_time that is
\* absent, empty, "Z"-terminated or malformed.
OptionalShape == <<2, 1, 2, 1>>

OptionalNames ==
  {"polarity_score", "waveform", "station_id", "begin_channel_index", "begin_time_index"}

BeginTimes ==
  {None,
   Some(<<"2024-01-01T00:00:00.000Z", "">>),
   Some(<<"", "2024-01-01T00:00:01.000ZZ">>),
   Some(<<"2024-01-01T00:00:00.000", "not-a-time">>),
   Some(<<"Z", "">>)}

OptionalArgs ==
  {[PlainArgs(1, 2500) EXCEPT
      !.begin_time = bt,
      !.polarity_score = IF "polarity_score" \in given
                         THEN FullArgs(OptionalShape, 1, 2500).polarity_score ELSE None,
      !.waveform = IF "waveform" \in given THEN Some(WaveformUp(OptionalShape)) ELSE None,
      !.station_id = IF "station_id" \in given
                     THEN FullArgs(OptionalShape, 1, 2500).station_id ELSE None,
      !.begin_channel_index = IF "begin_channel_index" \in given
                              THEN FullArgs(OptionalShape, 1, 2500).begin_channel_index
                              ELSE None,
      !.begin_time_index = IF "begin_time_index" \in given
                           THEN FullArgs(OptionalShape, 1, 2500).begin_time_index
                           ELSE None] :
     given \in SUBSET OptionalNames, bt \in BeginTimes}

InitOptional ==
  /\ pc = "ready"
  /\ topk_index \in [TopkGroups(OptionalShape) -> IndexSeqs(1)]
  /\ topk_score \in [TopkGroups(OptionalShape) -> [1 .. 1 -> {0, 2}]]
  /\ args = None
  /\ picks = None
  /\ scores = None
  /\ kernel = None
  /\ T = None
  /\ stride = None
  /\ K = None
  /\ scores_kept = None
  /\ topk_scores = None
  /\ topk_inds = None
  /\ fs = None
  /\ call = None
  /\ num_picks = None
  /\ run = None
  /\ rank_pc = None
  /\ todo = None
  /\ latest = None
  /\ merged_by = None

\* extract_picks(topk_index, topk_score, **a) returning its list of pick lists.
ExtractPicksOptional ==
  /\ pc = "ready"
  /\ \E a \in OptionalArgs :
       /\ ~ExtractRaises(topk_index, topk_score, a)
       /\ args' = a
       /\ picks' = extract_picks(topk_index, topk_score, a)
  /\ pc' = "done"
  /\ UNCHANGED <<topk_index, topk_score, dvars, mvars, pvars>>

\* extract_picks ending in an exception.
ExtractPicksOptionalRaises ==
  /\ pc = "ready"
  /\ \E a \in OptionalArgs :
       /\ ExtractRaises(topk_index, topk_score, a)
       /\ args' = a
  /\ pc' = "error"
  /\ UNCHANGED <<topk_index, topk_score, picks, dvars, mvars, pvars>>

NextOptional == ExtractPicksOptional \/ ExtractPicksOptionalRaises

SpecOptional == InitOptional /\ [][NextOptional]_vars

\* --------------------------------------- detect_peaks followed by extract_picks
\* The call sequence of pred_phasenet on one score tensor: detect_peaks with the
\* caller's kernel and the default stride and K, then extract_picks on its result.
\* Scores are in units of 1/3000 and dt in microseconds.
Scenario ==
  [shape |-> <<1, 2, 300, 1>>, impulse |-> <<0, 1, 150, 0>>, value |-> 2850,
   kernel |-> 21, stride |-> 1, K |-> 0,
   vmin |-> 1500, dt |-> 10000, begin_time |-> "2024-01-01T00:00:00.000"]

ScenarioScores ==
  [shape |-> Scenario.shape,
   val |-> [i \in Idx(Scenario.shape) |->
              IF i = Scenario.impulse THEN Scenario.value ELSE 0]]

ScenarioArgs ==
  [PlainArgs(Scenario.vmin, Scenario.dt) EXCEPT
     !.begin_time = Some(<<Scenario.begin_time>>)]

InitScenario ==
  /\ pc = "ready"
  /\ scores = ScenarioScores
  /\ kernel = None
  /\ T = None
  /\ stride = None
  /\ K = None
  /\ scores_kept = None
  /\ topk_scores = None
  /\ topk_inds = None
  /\ topk_index = None
  /\ topk_score = None
  /\ args = None
  /\ picks = None
  /\ fs = None
  /\ call = None
  /\ num_picks = None
  /\ run = None
  /\ rank_pc = None
  /\ todo = None
  /\ latest = None
  /\ merged_by = None

\* topk_scores, topk_inds = detect_peaks(scores, kernel=21).
ScenarioDetect ==
  /\ pc = "ready"
  /\ ~DetectRaises(scores, Scenario.kernel, Scenario.stride, Scenario.K)
  /\ kernel' = Scenario.kernel
  /\ stride' = Scenario.stride
  /\ K' = Scenario.K
  /\ \E kept \in {Suppress(scores, Scenario.kernel, Scenario.stride)} :
       /\ scores_kept' = kept
       /\ \E inds \in TopKIndexChoices(scores.shape, kept, Scenario.K) :
            /\ topk_inds' = [g \in Groups(scores.shape) |->
                               [n \in 1 .. Len(inds[g]) |-> inds[g][n] % scores.shape[3]]]
            /\ topk_scores' = TopKScoresOf(scores.shape, kept, inds)
  /\ pc' = "detected"
  /\ UNCHANGED <<scores, T, evars, mvars, pvars>>

\* picks = extract_picks(topk_inds, topk_scores, begin_time=..., dt=..., vmin=...,
\* phases=...) on the result of detect_peaks.
ScenarioExtract ==
  /\ pc = "detected"
  /\ ~ExtractRaises(topk_inds, topk_scores, ScenarioArgs)
  /\ topk_index' = topk_inds
  /\ topk_score' = topk_scores
  /\ args' = ScenarioArgs
  /\ picks' = extract_picks(topk_inds, topk_scores, ScenarioArgs)
  /\ pc' = "done"
  /\ UNCHANGED <<dvars, mvars, pvars>>

NextScenario == ScenarioDetect \/ ScenarioExtract

SpecScenario == InitScenario /\ [][NextScenario]_vars

\* ------------------------------------------------ the pipeline on small tensors
\* detect_peaks followed by extract_picks on its result, as predict.py and the
\* service call them (stride at its default 1), for tensors of one, two and
\* three class channels.
PipelineShapes == {<<1, 1, 3, 1>>, <<1, 2, 3, 1>>, <<1, 3, 2, 1>>}

PipelineScores == {0, 1, 2}

PipelineTensors ==
  UNION {{[shape |-> sh, val |-> f] : f \in [Idx(sh) -> PipelineScores]} :
           sh \in PipelineShapes}

PipelineKernels == {1, 2, 3}

PipelineKs == {0, 1, 2}

\* A waveform of two components over the time axis of the score tensor.
PipelineWaveform(sh) ==
  [shape |-> <<sh[1], 2, sh[3], sh[4]>>,
   val |-> [x \in Range0(sh[1]) \X {0, 1} \X Range0(sh[3]) \X Range0(sh[4]) |->
              IF x[2] = 0 THEN -(x[3] + 1) ELSE x[3]]]

\* The arguments of extract_picks: without a waveform, and with a waveform and
\* an amplitude window of 4, 1 and 0 samples (window_amp / dt).
PipelineArgs(sh) ==
  {PlainArgs(v, 10000) : v \in {0, 1}}
    \cup {[PlainArgs(v, d) EXCEPT !.waveform = Some(PipelineWaveform(sh)),
                                  !.window_amp = <<10000>>] :
            v \in {0, 1}, d \in {2500, 10000, 20000}}

InitPipeline ==
  /\ pc = "ready"
  /\ scores \in PipelineTensors
  /\ kernel = None
  /\ T = None
  /\ stride = None
  /\ K = None
  /\ scores_kept = None
  /\ topk_scores = None
  /\ topk_inds = None
  /\ topk_index = None
  /\ topk_score = None
  /\ args = None
  /\ picks = None
  /\ fs = None
  /\ call = None
  /\ num_picks = None
  /\ run = None
  /\ rank_pc = None
  /\ todo = None
  /\ latest = None
  /\ merged_by = None

\* topk_scores, topk_inds = detect_peaks(scores, kernel=k, K=k_).
PipelineDetect ==
  /\ pc = "ready"
  /\ \E k \in PipelineKernels, k_ \in PipelineKs :
       /\ ~DetectRaises(scores, k, 1, k_)
       /\ kernel' = k
       /\ stride' = 1
       /\ K' = k_
       /\ \E kept \in {Suppress(scores, k, 1)} :
            /\ scores_kept' = kept
            /\ \E inds \in TopKIndexChoices(scores.shape, kept, k_) :
                 /\ topk_inds' = [g \in Groups(scores.shape) |->
                                    [n \in 1 .. Len(inds[g]) |->
                                       inds[g][n] % scores.shape[3]]]
                 /\ topk_scores' = TopKScoresOf(scores.shape, kept, inds)
  /\ pc' = "detected"
  /\ UNCHANGED <<scores, T, evars, mvars, pvars>>

\* detect_peaks ending in an exception (K greater than the time length).
PipelineDetectRaises ==
  /\ pc = "ready"
  /\ \E k \in PipelineKernels, k_ \in PipelineKs :
       /\ DetectRaises(scores, k, 1, k_)
       /\ kernel' = k
       /\ stride' = 1
       /\ K' = k_
  /\ pc' = "error"
  /\ UNCHANGED <<scores, scores_kept, topk_scores, topk_inds, T, evars, mvars, pvars>>

\* picks = extract_picks(topk_inds, topk_scores, ...) on the result of detect_peaks.
PipelineExtract ==
  /\ pc = "detected"
  /\ \E a \in PipelineArgs(scores.shape) :
       /\ ~ExtractRaises(topk_inds, topk_scores, a)
       /\ args' = a
       /\ picks' = extract_picks(topk_inds, topk_scores, a)
  /\ topk_index' = topk_inds
  /\ topk_score' = topk_scores
  /\ pc' = "done"
  /\ UNCHANGED <<dvars, mvars, pvars>>

\* extract_picks ending in an exception.
PipelineExtractRaises ==
  /\ pc = "detected"
  /\ \E a \in PipelineArgs(scores.shape) :
       /\ ExtractRaises(topk_inds, topk_scores, a)
       /\ args' = a
  /\ topk_index' = topk_inds
  /\ topk_score' = topk_scores
  /\ pc' = "extract error"
  /\ UNCHANGED <<picks, dvars, mvars, pvars>>

NextPipeline ==
  PipelineDetect \/ PipelineDetectRaises \/ PipelineExtract \/ PipelineExtractRaises

SpecPipeline == InitPipeline /\ [][NextPipeline]_vars

\* ------------------------------------------------------------------- merge
\* A file name is the tuple of the "_"-separated tokens of its stem; every file
\* is a .csv file.  Tokens are single characters, so names of equal token count
\* sort as their token tuples do.
TokRank(t) ==
  CASE t = "0" -> 0
    [] t = "1" -> 1
    [] t = "2" -> 2
    [] OTHER -> 3

RECURSIVE NameLess(_, _)
NameLess(a, b) ==
  IF Len(b) = 0 THEN FALSE
  ELSE IF Len(a) = 0 THEN TRUE
  ELSE IF TokRank(a[1]) # TokRank(b[1]) THEN TokRank(a[1]) < TokRank(b[1])
  ELSE NameLess(Tail(a), Tail(b))

\* sorted(files): the list in ascending name order.
SortedMutUnsorted(files) == files

Sorted(files) ==
  [n \in 1 .. Len(files) |->
     CHOOSE p \in {files[x] : x \in 1 .. Len(files)} :
       Cardinality({x \in 1 .. Len(files) : NameLess(files[x], p)}) = n - 1]

\* lines[1:]
RestMutKeepFirst(lines) == lines

Rest(lines) == IF Len(lines) = 0 THEN <<>> ELSE Tail(lines)

\* The orders in which a directory listing may return the set S of names.
Listings(S) ==
  {q \in [1 .. Cardinality(S) -> S] : \A x, y \in DOMAIN q : x # y => q[x] # q[y]}

\* in_path.glob("*_*_*.csv"): the names of dir with at least two underscores
\* (line 159).
GlobDas(f, dir) == {p[2] : p \in {q \in DOMAIN f : q[1] = dir /\ Len(q[2]) >= 3}}

\* A name beginning with a dot, which the pattern "*.csv" of glob() skips.
Hidden(name) == name[1] = "."

GlobCsvMutHidden(f, dir) == {p[2] : p \in {q \in DOMAIN f : q[1] = dir}}

\* glob(os.path.join(pick_path, "*.csv")) (line 188).
GlobCsv(f, dir) == {p[2] : p \in {q \in DOMAIN f : q[1] = dir /\ ~Hidden(q[2])}}

\* file_group[file.stem.split("_")[0]].append(file): per event id, the files in
\* listing order (lines 161-163).
FileGroup(listing) ==
  [k \in {listing[n][1] : n \in DOMAIN listing} |->
     SelectSeq(listing, LAMBDA name : name[1] = k)]

\* Lines 170-175: one file read into [header, picks].
DasStepMutHeaderPerFile(st, tmp) ==
  [header |-> IF Len(tmp) > 0 THEN Some(tmp[1]) ELSE st.header,
   picks |-> (IF Len(tmp) > 0 THEN Append(st.picks, tmp[1]) ELSE st.picks) \o Rest(tmp)]

DasStepMutDedup(st, tmp) ==
  LET take == Len(tmp) > 0 /\ IsNone(st.header)
      base == IF take THEN Append(st.picks, tmp[1]) ELSE st.picks
  IN  [header |-> IF take THEN Some(tmp[1]) ELSE st.header,
       picks |-> base \o SelectSeq(Rest(tmp),
                                   LAMBDA l : \A n \in DOMAIN base : base[n] # l)]

DasStep(st, tmp) ==
  LET take == Len(tmp) > 0 /\ IsNone(st.header)
  IN  [header |-> IF take THEN Some(tmp[1]) ELSE st.header,
       picks |-> (IF take THEN Append(st.picks, tmp[1]) ELSE st.picks) \o Rest(tmp)]

\* Lines 167-175: the files of one group read in sorted order.
RECURSIVE DasFold(_, _, _, _)
DasFold(f, dir, files, n) ==
  IF n = 0 THEN [header |-> None, picks |-> <<>>]
  ELSE DasStep(DasFold(f, dir, files, n - 1), f[<<dir, files[n]>>])

DasPicks(f, dir, group) == DasFold(f, dir, Sorted(group), Len(group)).picks

\* if len(picks) > min_picks (line 177).
DasWritesMutGeq(picks_, min_picks) == Len(picks_) >= min_picks

DasWrites(picks_, min_picks) == Len(picks_) > min_picks

\* out_path (lines 151-154).
OutPath(raw_folder, merged_folder) ==
  IF IsNone(merged_folder) THEN raw_folder \o "_merged" ELSE merged_folder[1]

RECURSIVE SumLen(_, _)
SumLen(g, S) ==
  IF S = {} THEN 0
  ELSE LET k == CHOOSE x \in S : TRUE IN Len(g[k]) + SumLen(g, S \ {k})

\* Lines 192-199: one file written to the output of the flat merge.
FlatStep(st, lines) ==
  LET take == st.first_non_empty /\ Len(lines) > 0
  IN  [first_non_empty |-> IF take THEN FALSE ELSE st.first_non_empty,
       out |-> (IF take THEN Append(st.out, lines[1]) ELSE st.out) \o Rest(lines),
       num_picks |-> st.num_picks + Max2(0, Len(lines) - 1)]

RECURSIVE FlatFold(_, _, _, _)
FlatFold(f, dir, files, n) ==
  IF n = 0 THEN [first_non_empty |-> TRUE, out |-> <<>>, num_picks |-> 0]
  ELSE FlatStep(FlatFold(f, dir, files, n - 1), f[<<dir, files[n]>>])

\* pick_path.rstrip("/") on the paths of the model.
RStripSlash(pick_path) ==
  CASE pick_path = "picks/" -> "picks"
    [] OTHER -> pick_path

\* The directory that os.path.join(pick_path, "*.csv") lists (line 188).
ListedDir(pick_path) ==
  CASE pick_path = "picks/." -> "picks"
    [] OTHER -> RStripSlash(pick_path)

\* pick_path.rstrip("/") + ".csv" (line 190): the file named after the
\* directory, beside it; for a path ending in "/." the file "..csv" inside it.
FlatOutput(pick_path) ==
  IF RStripSlash(pick_path) = "picks/." THEN <<"picks", <<".">>>>
  ELSE <<".", <<RStripSlash(pick_path)>>>>

\* ------------------------------------------------------------ merge inputs
Header == "channel_index,phase_index,phase_time,phase_score,phase_type"

Rows == {"0001,150", "0002,170"}

\* A pick file as the prediction writes it: zero bytes for a unit without
\* picks, otherwise the header and the pick rows; and a header-only file.
FileContents ==
  {<<>>} \cup UNION {{<<Header>> \o r : r \in [1 .. n -> Rows]} : n \in 0 .. MaxRows}

RawFolder == "picks"

\* Partial files of the raw folder: two patches of event 1, one of event 2.
FileNames == {<<"1", "0", "0">>, <<"1", "1", "0">>, <<"2", "0", "0">>}

\* The min_picks arguments of merge_das_picks: any integer is accepted.
MinPicks == (0 - 1) .. MaxMinPicks

InitMerge ==
  /\ pc = "ready"
  /\ \E present \in SUBSET FileNames :
       fs \in [{<<RawFolder, name>> : name \in present} -> FileContents]
  /\ call = [fn |-> "none", min_picks |-> 0, out_path |-> "", written |-> {}]
  /\ num_picks = 0
  /\ scores = None
  /\ kernel = None
  /\ T = None
  /\ stride = None
  /\ K = None
  /\ scores_kept = None
  /\ topk_scores = None
  /\ topk_inds = None
  /\ topk_index = None
  /\ topk_score = None
  /\ args = None
  /\ picks = None
  /\ run = None
  /\ rank_pc = None
  /\ todo = None
  /\ latest = None
  /\ merged_by = None

\* merge_das_picks(raw_folder, merged_folder, min_picks) (lines 147-184): the
\* directory listing comes in any order; `merged` is the list `picks` of every
\* group, `outs` the files written.
MergeDasPicks ==
  /\ \E min_picks \in MinPicks, merged_folder \in {None},
        listing \in Listings(GlobDas(fs, RawFolder)) :
       \E out_path \in {OutPath(RawFolder, merged_folder)},
          file_group \in {FileGroup(listing)} :
         \E merged \in {[k \in DOMAIN file_group |->
                           DasPicks(fs, RawFolder, file_group[k])]} :
           \E outs \in {{<<out_path, <<k>>>> :
                           k \in {x \in DOMAIN merged : DasWrites(merged[x], min_picks)}}} :
             /\ fs' = [p \in DOMAIN fs \cup outs |->
                         IF p \in outs THEN merged[p[2][1]] ELSE fs[p]]
             /\ num_picks' = SumLen(merged, DOMAIN merged)
             /\ call' = [fn |-> "merge_das_picks", min_picks |-> min_picks,
                         out_path |-> out_path, written |-> outs]
  /\ UNCHANGED <<pc, dvars, evars, pvars>>

\* merge_seismic_picks(pick_path) (lines 187-200).
MergeSeismicPicks ==
  /\ \E listing \in Listings(GlobCsv(fs, RawFolder)) :
       \E csv_files \in {Sorted(listing)}, out \in {FlatOutput(RawFolder)} :
         \E res \in {FlatFold(fs, RawFolder, csv_files, Len(csv_files))} :
           /\ fs' = [p \in DOMAIN fs \cup {out} |-> IF p = out THEN res.out ELSE fs[p]]
           /\ num_picks' = res.num_picks
           /\ call' = [fn |-> "merge_seismic_picks", min_picks |-> 0,
                       out_path |-> ".", written |-> {out}]
  /\ UNCHANGED <<pc, dvars, evars, pvars>>

NextMerge == MergeDasPicks \/ MergeSeismicPicks

SpecMerge == InitMerge /\ [][NextMerge]_vars

\* ------------------------------------------------- merge: files of two headers
\* Partial files whose first line differs: files written with another column
\* list, as pred_phasenet writes them, beside files of the grouped layout.
OtherHeader == "station_name,phase_index,phase_time,phase_score,phase_type,phase_polarity"

HeaderContents ==
  {<<>>, <<Header>>, <<OtherHeader>>, <<Header, "0001,150">>, <<OtherHeader, "0002,170">>}

InitHeaders ==
  /\ pc = "ready"
  /\ \E present \in SUBSET FileNames :
       fs \in [{<<RawFolder, name>> : name \in present} -> HeaderContents]
  /\ call = [fn |-> "none", min_picks |-> 0, out_path |-> "", written |-> {}]
  /\ num_picks = 0
  /\ scores = None
  /\ kernel = None
  /\ T = None
  /\ stride = None
  /\ K = None
  /\ scores_kept = None
  /\ topk_scores = None
  /\ topk_inds = None
  /\ topk_index = None
  /\ topk_score = None
  /\ args = None
  /\ picks = None
  /\ run = None
  /\ rank_pc = None
  /\ todo = None
  /\ latest = None
  /\ merged_by = None

\* One call of either merge on the folder.
HeadersMergeDas == call.fn = "none" /\ MergeDasPicks

HeadersMergeSeismic == call.fn = "none" /\ MergeSeismicPicks

NextHeaders == HeadersMergeDas \/ HeadersMergeSeismic

SpecHeaders == InitHeaders /\ [][NextHeaders]_vars

\* ---------------------------------------------------- merge of a merged file
\* The folder in which a merged file is presented again as a group of its own.
AgainFolder == "again"

\* The first merge of a run over the raw folder, by either discipline.
FirstMergeDas == call.fn = "none" /\ MergeDasPicks

FirstMergeSeismic == call.fn = "none" /\ MergeSeismicPicks

\* The files the first merge wrote, each placed alone in AgainFolder: the file
\* <k>.csv of the grouped merge under the partial-file name <k>_0_0.csv (the
\* glob "*_*_*.csv" of line 159 does not match <k>.csv itself), the file of the
\* flat merge under its own name.
Restage ==
  /\ pc = "ready"
  /\ call.fn # "none"
  /\ \E staged \in {{<<AgainFolder,
                         IF call.fn = "merge_das_picks" THEN <<p[2][1], "0", "0">> ELSE p[2]>> :
                         p \in call.written}} :
       fs' = [q \in DOMAIN fs \cup staged |->
                IF q \in staged
                THEN fs[<<call.out_path, <<q[2][1]>>>>]
                ELSE fs[q]]
  /\ pc' = "staged"
  /\ UNCHANGED <<call, num_picks, dvars, evars, pvars>>

\* merge_das_picks(AgainFolder, None, min_picks) with the min_picks of the first
\* merge (lines 147-184).
RemergeDasPicks ==
  /\ pc = "staged"
  /\ call.fn = "merge_das_picks"
  /\ \E listing \in Listings(GlobDas(fs, AgainFolder)) :
       \E out_path \in {OutPath(AgainFolder, None)},
          file_group \in {FileGroup(listing)} :
         \E merged \in {[k \in DOMAIN file_group |->
                           DasPicks(fs, AgainFolder, file_group[k])]} :
           \E outs \in {{<<out_path, <<k>>>> :
                           k \in {x \in DOMAIN merged : DasWrites(merged[x], call.min_picks)}}} :
             /\ fs' = [p \in DOMAIN fs \cup outs |->
                         IF p \in outs THEN merged[p[2][1]] ELSE fs[p]]
             /\ num_picks' = SumLen(merged, DOMAIN merged)
             /\ call' = [fn |-> "merge_das_picks", min_picks |-> call.min_picks,
                         out_path |-> out_path, written |-> outs]
  /\ pc' = "done"
  /\ UNCHANGED <<dvars, evars, pvars>>

\* merge_seismic_picks(AgainFolder) (lines 187-200).
RemergeSeismicPicks ==
  /\ pc = "staged"
  /\ call.fn = "merge_seismic_picks"
  /\ \E listing \in Listings(GlobCsv(fs, AgainFolder)) :
       \E csv_files \in {Sorted(listing)}, out \in {FlatOutput(AgainFolder)} :
         \E res \in {FlatFold(fs, AgainFolder, csv_files, Len(csv_files))} :
           /\ fs' = [p \in DOMAIN fs \cup {out} |-> IF p = out THEN res.out ELSE fs[p]]
           /\ num_picks' = res.num_picks
           /\ call' = [fn |-> "merge_seismic_picks", min_picks |-> 0,
                       out_path |-> ".", written |-> {out}]
  /\ pc' = "done"
  /\ UNCHANGED <<dvars, evars, pvars>>

NextRemerge ==
  \/ FirstMergeDas
  \/ FirstMergeSeismic
  \/ Restage
  \/ RemergeDasPicks
  \/ RemergeSeismicPicks

SpecRemerge == InitMerge /\ [][NextRemerge]_vars

\* ------------------------------------------------------- merge run repeatedly
\* The same merge called again and again over the raw folder.
MaxRuns == 3

\* merged_folder: the default, the raw folder itself, another folder.
MergedFolders == {None, Some(RawFolder), Some("merged")}

\* pick_path: the raw folder written in three ways.
PickPaths == {RawFolder, RawFolder \o "/", RawFolder \o "/."}

InitRerun ==
  /\ pc = "ready"
  /\ \E present \in SUBSET FileNames :
       fs \in [{<<RawFolder, name>> : name \in present} -> FileContents]
  /\ call = [fn |-> "none", min_picks |-> 0, merged_folder |-> None, pick_path |-> "",
             written |-> {}, runs |-> 0]
  /\ num_picks = 0
  /\ scores = None
  /\ kernel = None
  /\ T = None
  /\ stride = None
  /\ K = None
  /\ scores_kept = None
  /\ topk_scores = None
  /\ topk_inds = None
  /\ topk_index = None
  /\ topk_score = None
  /\ args = None
  /\ picks = None
  /\ run = None
  /\ rank_pc = None
  /\ todo = None
  /\ latest = None
  /\ merged_by = None

\* merge_das_picks(RawFolder, merged_folder, min_picks) (lines 147-184), called
\* with the arguments of the run before when there was one.
RerunMergeDas ==
  /\ call.runs < MaxRuns
  /\ \E min_picks \in MinPicks, merged_folder \in MergedFolders,
        listing \in Listings(GlobDas(fs, RawFolder)) :
       /\ IF call.fn = "none" THEN TRUE
          ELSE /\ call.fn = "merge_das_picks"
               /\ call.min_picks = min_picks
               /\ call.merged_folder = merged_folder
       /\ \E out_path \in {OutPath(RawFolder, merged_folder)},
             file_group \in {FileGroup(listing)} :
            \E merged \in {[k \in DOMAIN file_group |->
                              DasPicks(fs, RawFolder, file_group[k])]} :
              \E outs \in {{<<out_path, <<k>>>> :
                              k \in {x \in DOMAIN merged : DasWrites(merged[x], min_picks)}}} :
                /\ fs' = [p \in DOMAIN fs \cup outs |->
                            IF p \in outs THEN merged[p[2][1]] ELSE fs[p]]
                /\ num_picks' = SumLen(merged, DOMAIN merged)
                /\ call' = [fn |-> "merge_das_picks", min_picks |-> min_picks,
                            merged_folder |-> merged_folder, pick_path |-> "",
                            written |-> outs, runs |-> call.runs + 1]
  /\ UNCHANGED <<pc, dvars, evars, pvars>>

\* merge_seismic_picks(pick_path) (lines 187-200), called with the argument of
\* the run before when there was one.
RerunMergeSeismic ==
  /\ call.runs < MaxRuns
  /\ \E pick_path \in PickPaths :
       /\ IF call.fn = "none" THEN TRUE
          ELSE call.fn = "merge_seismic_picks" /\ call.pick_path = pick_path
       /\ \E listing \in Listings(GlobCsv(fs, ListedDir(pick_path))) :
            \E csv_files \in {Sorted(listing)}, out \in {FlatOutput(pick_path)} :
              \E res \in {FlatFold(fs, ListedDir(pick_path), csv_files, Len(csv_files))} :
                /\ fs' = [p \in DOMAIN fs \cup {out} |-> IF p = out THEN res.out ELSE fs[p]]
                /\ num_picks' = res.num_picks
                /\ call' = [fn |-> "merge_seismic_picks", min_picks |-> 0,
                            merged_folder |-> None, pick_path |-> pick_path,
                            written |-> {out}, runs |-> call.runs + 1]
  /\ UNCHANGED <<pc, dvars, evars, pvars>>

NextRerun == RerunMergeDas \/ RerunMergeSeismic

SpecRerun == InitRerun /\ [][NextRerun]_vars

\* ----------------------------------------------------------- prediction run
\* pred_phasenet and pred_phasenet_das of predict.py: every process (rank) writes
\* one pick file per unit of work of its shard; pred_phasenet_das then merges.
PickPath == RawFolder

\* merge_das_picks(raw_folder, merged_folder=None, min_picks=10) (line 147).
DefaultMinPicks == 10

\* The units of work of the model: two patches of event 1.
UnitNames == {<<"1", "0", "0">>, <<"1", "1", "0">>}

\* The top-K entries of one unit: one group of two entries, each a peak (score
\* above min_prob) or not.
UnitTopkIndex == [g \in {<<0, 0, 0>>} |-> <<1, 0>>]

UnitTopkScores == [{<<0, 0, 0>>} -> [1 .. 2 -> {0, 2}]]

\* The arguments the callers give extract_picks (lines 38-48 and 116-126):
\* station_name goes into **kwargs, station_id stays None; pred_phasenet passes
\* polarity_score, which is None when the model has no polarity output.
CallerArgs(r) ==
  [PlainArgs(1, 10000) EXCEPT
     !.polarity_score =
        IF r.model = "phasenet" /\ r.use_polarity
        THEN Some([x \in {0} \X {0} \X Range0(MaxNtPicks) \X {0} |-> 4 * x[3] - 5])
        ELSE None]

\* The pick lists extract_picks may return for one unit of the run r.
UnitPicks(r) == {PicksPerFile(UnitTopkIndex, ts, CallerArgs(r), 0) : ts \in UnitTopkScores}

\* pd.DataFrame(picks_[i]).columns: the keys of the pick records.
Fields(picks_) == DOMAIN picks_[1]

\* The columns to_csv is asked to write (lines 74-81 and 139).
ColumnsPhasenet ==
  <<"station_name", "phase_index", "phase_time", "phase_score", "phase_type", "phase_polarity">>

ColumnsDas == <<"channel_index", "phase_index", "phase_time", "phase_score", "phase_type">>

SeqRange(q) == {q[n] : n \in DOMAIN q}

\* The column a caller reads or writes that the DataFrame lacks raises KeyError:
\* picks_df["station_name"] (line 135), to_csv(columns=...) (lines 72-83, 137-141).
WriteRaises(r, picks_) ==
  IF r.model = "phasenet_das"
  THEN "station_name" \notin Fields(picks_)
  ELSE ~(SeqRange(ColumnsPhasenet) \subseteq Fields(picks_))

\* int(x) of a four-digit identifier (line 135).
IntOf(d) == d[1] * 1000 + d[2] * 100 + d[3] * 10 + d[4]

\* picks_df.sort_values(by=...) (lines 71 and 136): ascending by the caller's key.
SortKey(r, rec) ==
  IF r.model = "phasenet_das"
  THEN IntOf(rec.station_name) * 100000 + rec.phase_index
  ELSE rec.phase_index

SortValues(r, picks_) ==
  [n \in 1 .. Len(picks_) |->
     picks_[CHOOSE x \in 1 .. Len(picks_) :
              Cardinality({y \in 1 .. Len(picks_) :
                             \/ SortKey(r, picks_[y]) < SortKey(r, picks_[x])
                             \/ (SortKey(r, picks_[y]) = SortKey(r, picks_[x]) /\ y < x)})
                = n - 1]]

\* to_csv(path, columns=cols, index=False): the header line and one line per pick.
ToCsv(r, picks_) ==
  LET cols == IF r.model = "phasenet_das" THEN ColumnsDas ELSE ColumnsPhasenet
      df == SortValues(r, picks_)
      cell(rec, c) == IF c = "channel_index" THEN IntOf(rec.station_name) ELSE rec[c]
  IN  <<cols>> \o [n \in 1 .. Len(df) |-> [m \in 1 .. Len(cols) |-> cell(df[n], cols[m])]]

\* with open(path, "a"): pass (lines 67-68 and 131-132): the file is created
\* when it does not exist and left as it is when it does.
OpenAppend(f, path) ==
  [q \in DOMAIN f \cup {path} |-> IF q \in DOMAIN f THEN f[q] ELSE <<>>]

\* The body of the loop over the units of a batch (lines 63-83 and 128-141).
WriteUnitFs(f, r, u) ==
  IF Len(u.picks) = 0 THEN OpenAppend(f, <<PickPath, u.file_name>>)
  ELSE IF WriteRaises(r, u.picks) THEN f
  ELSE [q \in DOMAIN f \cup {<<PickPath, u.file_name>>} |->
          IF q = <<PickPath, u.file_name>> THEN ToCsv(r, u.picks) ELSE f[q]]

\* utils.is_main_process(): the process of rank 0.
is_main_process(p) == p = 0

\* Lines 157-163: which process calls merge_picks after the loop.
MergeGuardMutEveryRank(r, p) == r.cut_patch

MergeGuard(r, p) ==
  IF r.distributed THEN r.cut_patch /\ is_main_process(p) ELSE r.cut_patch

\* torch.distributed.barrier() (line 158) lets a process through once every
\* process of the run has arrived.
BarrierOpen(r, pcs) == \A q \in DOMAIN pcs : pcs[q] \in {"barrier", "merge", "done"}

\* merge_picks(pick_path): the grouped merge of the pick directory with its
\* default arguments, for the listing order the directory returns.
merge_picks(f, pick_path, listing) ==
  LET out_path == OutPath(pick_path, None)
      file_group == FileGroup(listing)
      merged == [k \in DOMAIN file_group |-> DasPicks(f, pick_path, file_group[k])]
      outs == {<<out_path, <<k>>>> :
                 k \in {x \in DOMAIN merged : DasWrites(merged[x], DefaultMinPicks)}}
  IN  [q \in DOMAIN f \cup outs |-> IF q \in outs THEN merged[q[2][1]] ELSE f[q]]

\* ---------------------------------------------------- prediction run inputs
Runs ==
  {[model |-> "phasenet_das", distributed |-> d, cut_patch |-> c,
    use_polarity |-> FALSE, world_size |-> IF d THEN 2 ELSE 1] : d, c \in BOOLEAN}
    \cup {[model |-> "phasenet", distributed |-> FALSE, cut_patch |-> FALSE,
           use_polarity |-> u, world_size |-> 1] : u \in BOOLEAN}

Ranks(r) == 0 .. (r.world_size - 1)

\* What the pick directory may hold of a unit before the run: nothing, a
\* zero-byte file, or a file with the header and a pick row.
OldFiles == {<<>>, <<Header, "0001,150">>}

\* The shards: every unit belongs to one rank, or is not part of the run.
Shards(r) ==
  {sh \in [UnitNames -> Ranks(r) \cup {0 - 1}] :
     \A n1, n2 \in UnitNames : (NameLess(n1, n2) /\ sh[n2] >= 0) => sh[n1] >= 0}

UnitsOf(r, sh, pk, p) ==
  LET mine == {n \in UnitNames : sh[n] = p}
      order == Sorted(CHOOSE q \in Listings(mine) : TRUE)
  IN  [n \in 1 .. Len(order) |-> [file_name |-> order[n], picks |-> pk[order[n]]]]

InitPredict ==
  /\ run \in Runs
  /\ \E sh \in Shards(run), pk \in [UnitNames -> UnitPicks(run)] :
       todo = [p \in Ranks(run) |-> UnitsOf(run, sh, pk, p)]
  /\ rank_pc = [p \in Ranks(run) |-> "loop"]
  /\ \E old \in SUBSET UnitNames :
       fs \in [{<<PickPath, n>> : n \in old} -> OldFiles]
  /\ latest = <<>>
  /\ merged_by = <<>>
  /\ pc = "ready"
  /\ call = None
  /\ num_picks = None
  /\ scores = None
  /\ kernel = None
  /\ T = None
  /\ stride = None
  /\ K = None
  /\ scores_kept = None
  /\ topk_scores = None
  /\ topk_inds = None
  /\ topk_index = None
  /\ topk_score = None
  /\ args = None
  /\ picks = None

\* One pass of the loop over the units: the unit's file is written, or the
\* write raises and ends the process.
WriteUnit ==
  /\ \E p \in DOMAIN rank_pc :
       /\ rank_pc[p] = "loop"
       /\ todo[p] # <<>>
       /\ \E u \in {Head(todo[p])} :
            /\ fs' = WriteUnitFs(fs, run, u)
            /\ latest' = [n \in DOMAIN latest \cup {u.file_name} |->
                            IF n = u.file_name THEN Len(u.picks) ELSE latest[n]]
            /\ rank_pc' = [rank_pc EXCEPT ![p] =
                             IF Len(u.picks) > 0 /\ WriteRaises(run, u.picks)
                             THEN "error" ELSE "loop"]
       /\ todo' = [todo EXCEPT ![p] = Tail(todo[p])]
  /\ UNCHANGED <<pc, run, merged_by, call, num_picks, dvars, evars>>

\* The loop ends: pred_phasenet returns (line 101); pred_phasenet_das goes to the
\* barrier when distributed (line 158) and to the test of line 162 otherwise.
LoopEnd ==
  /\ \E p \in DOMAIN rank_pc :
       /\ rank_pc[p] = "loop"
       /\ todo[p] = <<>>
       /\ rank_pc' = [rank_pc EXCEPT ![p] =
                        IF run.model = "phasenet" THEN "done"
                        ELSE IF run.distributed THEN "barrier" ELSE "merge"]
  /\ UNCHANGED <<pc, run, todo, latest, merged_by, mvars, dvars, evars>>

\* torch.distributed.barrier() returns (line 158).
Barrier ==
  /\ \E p \in DOMAIN rank_pc :
       /\ rank_pc[p] = "barrier"
       /\ BarrierOpen(run, rank_pc)
       /\ rank_pc' = [rank_pc EXCEPT ![p] = "merge"]
  /\ UNCHANGED <<pc, run, todo, latest, merged_by, mvars, dvars, evars>>

\* merge_picks(pick_path) by a process that passes the test (lines 159-163).
MergePicks ==
  /\ \E p \in DOMAIN rank_pc :
       /\ rank_pc[p] = "merge"
       /\ MergeGuard(run, p)
       /\ \E listing \in Listings(GlobDas(fs, PickPath)) :
            fs' = merge_picks(fs, PickPath, listing)
       /\ merged_by' = Append(merged_by, p)
       /\ rank_pc' = [rank_pc EXCEPT ![p] = "done"]
  /\ UNCHANGED <<pc, run, todo, latest, call, num_picks, dvars, evars>>

\* return 0 without a merge (line 165).
ReturnNoMerge ==
  /\ \E p \in DOMAIN rank_pc :
       /\ rank_pc[p] = "merge"
       /\ ~MergeGuard(run, p)
       /\ rank_pc' = [rank_pc EXCEPT ![p] = "done"]
  /\ UNCHANGED <<pc, run, todo, latest, merged_by, mvars, dvars, evars>>

NextPredict == WriteUnit \/ LoopEnd \/ Barrier \/ MergePicks \/ ReturnNoMerge

SpecPredict == InitPredict /\ [][NextPredict]_vars

\* ------------------------------------------------------- claims: detect_peaks
\* The input series of output group g = <<b, j, s>> at time t.
InSeries(g, t) ==
  scores.val[<<g[1], IF scores.shape[2] = 1 THEN g[2] ELSE g[2] + 1, t, g[3]>>]

\* The suppressed series of output group g at time t.
KeptSeries(g, t) ==
  scores_kept[<<g[1], IF scores.shape[2] = 1 THEN g[2] ELSE g[2] + 1, t, g[3]>>]

\* Maximum of the input series of (b, c, s) over the in-range part of lo .. hi.
WindowMax(b, c, s, lo, hi) ==
  SetMax({scores.val[<<b, c, u, s>>] : u \in (lo .. hi) \cap Range0(scores.shape[3])})

\* C1 (as stated): with stride = 1, for every positive kernel, odd or even, a
\* sample keeps its score iff it equals the maximum over the in-range part of
\* the centred window [t - pad, t + pad], pad = kernel div 2; every other sample
\* is set to 0.
C1_Centred ==
  (pc = "done" /\ stride = 1) =>
    \A i \in Idx(scores.shape) :
      scores_kept[i] =
        IF scores.val[i] = WindowMax(i[1], i[2], i[4],
                                     i[3] - kernel \div 2, i[3] + kernel \div 2)
        THEN scores.val[i] ELSE 0

\* C1 (amended): with stride = 1, a sample keeps its score iff it equals the
\* maximum over the in-range part of the kernel-sample window
\* [t - pad, t - pad + kernel - 1], which is the centred window [t - pad, t + pad]
\* for an odd kernel and [t - pad, t + pad - 1] for an even one; every other
\* sample is set to 0.
C1_KernelWindow ==
  (pc = "done" /\ stride = 1) =>
    \A i \in Idx(scores.shape) :
      scores_kept[i] =
        IF scores.val[i] = WindowMax(i[1], i[2], i[4], i[3] - kernel \div 2,
                                     i[3] - kernel \div 2 + kernel - 1)
        THEN scores.val[i] ELSE 0

\* C1 witness: an even kernel, stride 1, and a positive sample that survives
\* although the sample at t + pad is larger, beside a sample that is zeroed.
C1_Witness ==
  /\ pc = "done"
  /\ stride = 1
  /\ kernel % 2 = 0
  /\ \E i \in Idx(scores.shape) :
       /\ i[3] + kernel \div 2 < scores.shape[3]
       /\ scores.val[i] > 0
       /\ scores_kept[i] = scores.val[i]
       /\ scores.val[<<i[1], i[2], i[3] + kernel \div 2, i[4]>>] > scores.val[i]
  /\ \E i \in Idx(scores.shape) : scores.val[i] > 0 /\ scores_kept[i] = 0

\* Number of samples of group g's input series that exceed 0.
PositiveSamples(g) == Cardinality({t \in Range0(scores.shape[3]) : InSeries(g, t) > 0})

\* Number of returned entries of group g that exceed 0.
PositiveEntries(g) == Cardinality({n \in DOMAIN topk_scores[g] : topk_scores[g][n] > 0})

\* C2 (as stated): per group, the number of peaks returned is at most K and at
\* most the number of samples of the group's series whose score exceeds 0.
C2_CountAtMostPositive ==
  pc = "done" =>
    \A g \in DOMAIN topk_scores :
      /\ Len(topk_scores[g]) <= Keff(K, scores.shape[3])
      /\ Len(topk_scores[g]) <= PositiveSamples(g)

\* C2 (amended): per group, exactly K entries are returned (K after the K = 0
\* default), zero-score entries filling the slots that have no peak; the number
\* of returned entries whose score exceeds 0 is at most K and at most the number
\* of samples of the group's series whose score exceeds 0.
C2_ExactlyK ==
  pc = "done" =>
    \A g \in DOMAIN topk_scores :
      /\ Len(topk_scores[g]) = Keff(K, scores.shape[3])
      /\ Len(topk_inds[g]) = Keff(K, scores.shape[3])
      /\ PositiveEntries(g) <= Keff(K, scores.shape[3])
      /\ PositiveEntries(g) <= PositiveSamples(g)

\* C2 witness: a group with fewer positive samples than K, one of them returned.
C2_Witness ==
  /\ pc = "done"
  /\ \E g \in DOMAIN topk_scores :
       /\ PositiveSamples(g) < Keff(K, scores.shape[3])
       /\ PositiveEntries(g) >= 1
       /\ PositiveEntries(g) < Len(topk_scores[g])

\* C3 (as stated): every returned score equals the input score tensor's value
\* at the entry's batch, class channel, time index and station.
C3_ScoreIsInput ==
  pc = "done" =>
    \A g \in DOMAIN topk_scores :
      \A n \in DOMAIN topk_scores[g] :
        topk_scores[g][n] = InSeries(g, topk_inds[g][n])

\* C3 (amended): every returned score equals the post-suppression value at the
\* entry's batch, source channel (j + 1 for a multi-channel tensor), time index
\* and station: the input value when the score is not 0, and 0 for an entry
\* whose sample was suppressed.
C3_ScoreIsKept ==
  pc = "done" =>
    \A g \in DOMAIN topk_scores :
      \A n \in DOMAIN topk_scores[g] :
        /\ topk_inds[g][n] \in Range0(scores.shape[3])
        /\ topk_scores[g][n] = KeptSeries(g, topk_inds[g][n])
        /\ topk_scores[g][n] \in {0, InSeries(g, topk_inds[g][n])}

\* C3 witness: a two-channel tensor, one entry returned with its input score and
\* one returned with 0 where the input is positive.
C3_Witness ==
  /\ pc = "done"
  /\ scores.shape[2] = 2
  /\ \E g \in DOMAIN topk_scores :
       /\ \E n \in DOMAIN topk_scores[g] :
            topk_scores[g][n] > 0 /\ topk_scores[g][n] = InSeries(g, topk_inds[g][n])
       /\ \E n \in DOMAIN topk_scores[g] :
            topk_scores[g][n] = 0 /\ InSeries(g, topk_inds[g][n]) > 0

\* C15: a call of detect_peaks with kernel <= 0, with stride <= 0, or with K
\* greater than the number of time samples T ends in an error and returns no
\* (scores, indices) result.
C15_InvalidConfigFails ==
  pc \in {"done", "error"} =>
    ((kernel <= 0 \/ stride <= 0 \/ K > scores.shape[3]) =>
       (pc = "error" /\ topk_scores = None /\ topk_inds = None))

\* C15 witness: a call with a valid kernel and stride and K = T + 1 ended in an
\* error.
C15_Witness ==
  /\ pc = "error"
  /\ kernel = 1
  /\ stride = 1
  /\ K = scores.shape[3] + 1

\* Maximum of the input series of (b, c, s) over the in-range part of the
\* centred window [t - pad, t + pad].
CentredMax(i) ==
  WindowMax(i[1], i[2], i[4], i[3] - kernel \div 2, i[3] + kernel \div 2)

\* The sample i is one of several adjacent samples of its series that share its
\* value.
OnPlateau(i) ==
  \E u \in {i[3] - 1, i[3] + 1} \cap Range0(scores.shape[3]) :
    scores.val[<<i[1], i[2], u, i[4]>>] = scores.val[i]

\* C21: when several adjacent samples of one series share the same value and
\* that value is the maximum of each of their windows, all of them survive
\* suppression; of a 3-sample plateau of the series' maximum at least 2 survive.
C21_PlateauSurvives ==
  pc = "done" =>
    \A i \in Idx(scores.shape) :
      /\ (OnPlateau(i) /\ scores.val[i] = CentredMax(i)) => scores_kept[i] = scores.val[i]
      /\ (/\ i[3] + 2 < scores.shape[3]
          /\ \A d \in {0, 1, 2} :
               scores.val[<<i[1], i[2], i[3] + d, i[4]>>] =
                 WindowMax(i[1], i[2], i[4], 0, scores.shape[3] - 1))
           => Cardinality({d \in {0, 1, 2} :
                             scores_kept[<<i[1], i[2], i[3] + d, i[4]>>] =
                               scores.val[i]}) >= 2

\* The part of C21 the code keeps: with stride = 1 every sample of a plateau whose
\* value is the maximum of each window survives.
C21_PlateauSurvivesStride1 ==
  (pc = "done" /\ stride = 1) =>
    \A i \in Idx(scores.shape) :
      (OnPlateau(i) /\ scores.val[i] = CentredMax(i)) => scores_kept[i] = scores.val[i]

\* C22: for every stride >= 1 the call completes and the survival decision of
\* every time index t is made against the maximum of t's own centred window
\* [t - pad, t + pad], as for stride = 1 (kernel odd, so that the kernel-sample
\* window is the centred one).
C22_StrideOwnWindow ==
  (pc \in {"done", "error"} /\ stride >= 1 /\ kernel >= 1 /\ kernel % 2 = 1
     /\ ~TopKRaises(K, scores.shape[3])) =>
    /\ pc = "done"
    /\ \A i \in Idx(scores.shape) :
         scores_kept[i] = IF scores.val[i] = CentredMax(i) THEN scores.val[i] ELSE 0

\* The part of C22 the code keeps: the claim for stride = 1 and an odd kernel.
C22_Stride1OwnWindow ==
  (pc \in {"done", "error"} /\ stride = 1 /\ kernel >= 1 /\ kernel % 2 = 1
     /\ ~TopKRaises(K, scores.shape[3])) =>
    /\ pc = "done"
    /\ \A i \in Idx(scores.shape) :
         scores_kept[i] = IF scores.val[i] = CentredMax(i) THEN scores.val[i] ELSE 0

\* The time indices of group g's series that are not among the returned entries.
NotReturned(g) ==
  Range0(scores.shape[3]) \ {topk_inds[g][n] : n \in DOMAIN topk_inds[g]}

\* C23: for every (batch, class, station) group the returned entries are the K
\* highest post-suppression scores of the group's series: every sample that is
\* not returned has a post-suppression score less than or equal to every
\* returned score, and no sample is returned twice.
C23_TopKHighest ==
  pc = "done" =>
    \A g \in DOMAIN topk_scores :
      /\ \A t \in NotReturned(g) :
           \A n \in DOMAIN topk_scores[g] : KeptSeries(g, t) <= topk_scores[g][n]
      /\ Cardinality(NotReturned(g)) = scores.shape[3] - Keff(K, scores.shape[3])

\* C23 witness: a group of which a surviving sample is left out, below a
\* returned one, and another left out at the score of a returned one.
C23_Witness ==
  /\ pc = "done"
  /\ \E g \in DOMAIN topk_scores :
       /\ \E t \in NotReturned(g) :
            /\ KeptSeries(g, t) > 0
            /\ \E n \in DOMAIN topk_scores[g] : KeptSeries(g, t) < topk_scores[g][n]
       /\ \E t \in NotReturned(g) :
            \E n \in DOMAIN topk_scores[g] : KeptSeries(g, t) = topk_scores[g][n]

\* round(T * 10 / 3000) as the claim reads it: the integer nearest to T / 300,
\* the even one of the two when T / 300 lies halfway between them.
IsRounded(r, t) ==
  /\ 2 * (t - 300 * r) <= 300
  /\ 2 * (300 * r - t) <= 300
  /\ (2 * (t - 300 * r) = 300 \/ 2 * (300 * r - t) = 300) => r % 2 = 0

\* C24: with K = 0 the budget used is max(round(T * 10 / 3000), 3); it is at
\* least 3 for every T >= 1 and never decreases as T grows.
C24_DefaultBudget ==
  (pc = "budget" /\ K \notin BudgetKs \ {0}) =>
    /\ K >= 3
    /\ \E r \in 0 .. K : IsRounded(r, T) /\ K = IF r >= 3 THEN r ELSE 3
    /\ Keff(0, T + 1) >= K

\* C24 witness: a time length whose tenth of three hundred lies halfway, 1050,
\* with the budget 4, above the minimum.
C24_Witness ==
  /\ pc = "budget"
  /\ T = 1050
  /\ K = 4

\* ------------------------------------------------------ claims: extract_picks
\* The picks of batch element i that carry the phase name of class j and the
\* station identifier of station k, in list order.
PicksOfGroup(g) ==
  SelectSeq(picks[g[1] + 1],
            LAMBDA p : /\ p.phase_type = args.phases[g[2] + 1]
                       /\ p.station_id = StationI(args, g[1], g[3]))

\* The positions of group g's entries whose score is strictly above vmin.
Above(g) == {n \in DOMAIN topk_score[g] : topk_score[g][n] > args.vmin}

\* C4: every emitted pick comes from a peak whose score is strictly greater than
\* vmin, a peak whose score is vmin or lower produces no pick, and every peak
\* whose score is strictly greater than vmin produces exactly one pick.
C4_Threshold ==
  pc = "done" =>
    \A g \in DOMAIN topk_score :
      LET gp == PicksOfGroup(g)
          off == BeginTimeIndex(args, g[1])
      IN  /\ Len(gp) = Cardinality(Above(g))
          /\ \A n \in Above(g) :
               Cardinality({m \in DOMAIN gp :
                              /\ gp[m].phase_index = topk_index[g][n] + off
                              /\ gp[m].phase_score = (topk_score[g][n] + 1) \div 3}) = 1
          /\ \A n \in DOMAIN topk_score[g] \ Above(g) :
               \A m \in DOMAIN gp : gp[m].phase_index # topk_index[g][n] + off

\* C4 witness: a returned call on a group holding a score below vmin, one equal
\* to vmin and one above it; only the last became a pick.
C4_Witness ==
  /\ pc = "done"
  /\ \E g \in DOMAIN topk_score :
       /\ \E n \in DOMAIN topk_score[g] : topk_score[g][n] < args.vmin
       /\ \E n \in DOMAIN topk_score[g] : topk_score[g][n] = args.vmin
       /\ Cardinality(Above(g)) = 1
       /\ Len(picks[g[1] + 1]) = 1

\* Class and station of a pick of batch element i, read back from its fields.
ClassOfPick(p) == CHOOSE j \in Range0(Len(args.phases)) : args.phases[j + 1] = p.phase_type

StationOfPick(i, p) ==
  CHOOSE k \in Range0(Dim(topk_index, 3)) : StationI(args, i, k) = p.station_id

\* C5: within the list of one batch element, picks are ordered by (class j,
\* station k, time index) lexicographically; within one group phase_index never
\* decreases, whatever the order of the top-K entries given as input.
C5_Order ==
  pc = "done" =>
    \A i \in Range0(Dim(topk_index, 1)) :
      \A m1, m2 \in DOMAIN picks[i + 1] :
        m1 < m2 =>
          LET p == picks[i + 1][m1]
              q == picks[i + 1][m2]
          IN  \/ ClassOfPick(p) < ClassOfPick(q)
              \/ /\ ClassOfPick(p) = ClassOfPick(q)
                 /\ StationOfPick(i, p) < StationOfPick(i, q)
              \/ /\ ClassOfPick(p) = ClassOfPick(q)
                 /\ StationOfPick(i, p) = StationOfPick(i, q)
                 /\ p.phase_index <= q.phase_index

\* C5 witness: a batch element with picks of two stations, one group given with
\* its later peak first and both of its peaks emitted.
C5_Witness ==
  /\ pc = "done"
  /\ \E g \in DOMAIN topk_index :
       /\ Len(topk_index[g]) >= 2
       /\ topk_index[g][1] > topk_index[g][2]
       /\ {1, 2} \subseteq Above(g)
       /\ Len(picks[g[1] + 1]) >= 3
       /\ \E m \in DOMAIN picks[g[1] + 1] :
            StationOfPick(g[1], picks[g[1] + 1][m]) # g[3]

\* The time indices of group g's surviving peaks (entries above vmin).
SurvivingIndices(g) == {topk_index[g][n] : n \in Above(g)}

\* C6: with a waveform, phase_amplitude of the pick at time index p is the
\* maximum of the envelope over [p, min(p + W, n)), n the time index of the next
\* surviving peak of the group, and over [p, p + W) when there is none; an entry
\* that is not a surviving peak does not shorten the window.
C6_WindowToNextSurvivor ==
  (pc = "done" /\ ~IsNone(args.waveform)) =>
    \A g \in DOMAIN topk_index :
      \A m \in DOMAIN PicksOfGroup(g) :
        LET gp == PicksOfGroup(g)
            p == gp[m].phase_index - BeginTimeIndex(args, g[1])
            w == WindowAmp(args)[g[2] + 1] \div DtOf(args, g[1])
            later == {u \in SurvivingIndices(g) : u > p}
            hi == IF later = {} THEN p + w ELSE Min2(p + w, SetMin(later))
        IN  gp[m].phase_amplitude =
              Format3e(SetMax({WaveformAmp(args, g[1], t, g[3]) :
                                 t \in (p .. (hi - 1)) \cap Range0(args.waveform[1].shape[3])}))

\* The anchor the claim gives batch element i: date and millisecond of the day,
\* or "parse error" for a non-empty string that is no ISO-8601 timestamp.
ClaimedAnchor(i) ==
  LET str == IF IsNone(args.begin_time) THEN "" ELSE args.begin_time[1][i + 1]
  IN  CASE str = "" -> [date |-> "1970-01-01", ms |-> 0]
        [] str \in {"2024-01-01T00:00:00.000Z", "2024-01-01T00:00:00.000"} ->
             [date |-> "2024-01-01", ms |-> 0]
        [] str = "2024-01-01T00:00:01.000ZZ" -> [date |-> "2024-01-01", ms |-> 1000]
        [] OTHER -> [date |-> "parse error", ms |-> 0]

\* The batch elements whose begin_time the claim calls malformed.
Malformed == {i \in Range0(Dim(topk_index, 1)) : ClaimedAnchor(i).date = "parse error"}

\* C16: the anchor of batch element i is the epoch exactly when begin_time is
\* absent or begin_time[i] is empty, and otherwise begin_time[i] without its
\* trailing Z; a non-empty string that is no ISO-8601 timestamp makes the whole
\* call end in a parse error without a pick list.
C16_Anchor ==
  pc \in {"done", "error"} =>
    IF Malformed # {} THEN pc = "error" /\ picks = None
    ELSE /\ pc = "done"
         /\ \A i \in Range0(Dim(topk_index, 1)) :
              \A m \in DOMAIN picks[i + 1] :
                LET pk == picks[i + 1][m]
                    index == pk.phase_index - BeginTimeIndex(args, i)
                IN  /\ pk.phase_time.date = ClaimedAnchor(i).date
                    /\ pk.phase_time.ms =
                         ClaimedAnchor(i).ms + (index * DtOf(args, i)) \div 1000

\* C16 witness: a returned call whose first anchor is a "Z"-terminated timestamp
\* and whose second is the empty string, with picks of both batch elements.
C16_Witness ==
  /\ pc = "done"
  /\ args.begin_time = Some(<<"2024-01-01T00:00:00.000Z", "">>)
  /\ Len(picks[1]) >= 1
  /\ Len(picks[2]) >= 1
  /\ picks[2][1].phase_time.date = "1970-01-01"

\* The stations of batch element i whose entry is a peak, in ascending order.
PeakStations(i) ==
  SelectSeq([k \in 1 .. Dim(topk_index, 3) |-> k - 1],
            LAMBDA k : topk_score[<<i, 0, k>>][1] > args.vmin)

\* C17: absent optional inputs are no errors: for every subset of polarity_score,
\* waveform, station_id, begin_channel_index, begin_time_index that is absent the
\* call returns; a pick has phase_polarity iff polarity_score was given and
\* phase_amplitude iff waveform was given; station_id is station_id[k][i] when
\* given and otherwise the zero-padded k + begin_channel_index[i]; both offsets
\* default to 0.
C17_OptionalInputs ==
  (pc \in {"done", "error"} /\ Malformed = {}) =>
    /\ pc = "done"
    /\ \A i \in Range0(Dim(topk_index, 1)) :
         /\ Len(picks[i + 1]) = Len(PeakStations(i))
         /\ \A m \in DOMAIN picks[i + 1] :
              LET pk == picks[i + 1][m]
                  k == PeakStations(i)[m]
                  ch == IF IsNone(args.begin_channel_index) THEN 0
                        ELSE args.begin_channel_index[1][i + 1]
                  t0 == IF IsNone(args.begin_time_index) THEN 0
                        ELSE args.begin_time_index[1][i + 1]
              IN  /\ ("phase_polarity" \in DOMAIN pk) <=> ~IsNone(args.polarity_score)
                  /\ ("phase_amplitude" \in DOMAIN pk) <=> ~IsNone(args.waveform)
                  /\ pk.station_id =
                       IF IsNone(args.station_id) THEN ZeroPad4(k + ch)
                       ELSE args.station_id[1][k + 1][i + 1]
                  /\ pk.phase_index = topk_index[<<i, 0, k>>][1] + t0

\* C17 witness: a returned call without polarity_score, station_id and
\* begin_time_index but with a waveform and begin_channel_index, and a pick of
\* the second station.
C17_Witness ==
  /\ pc = "done"
  /\ IsNone(args.polarity_score)
  /\ IsNone(args.station_id)
  /\ IsNone(args.begin_time_index)
  /\ ~IsNone(args.waveform)
  /\ ~IsNone(args.begin_channel_index)
  /\ \E m \in DOMAIN picks[1] :
       /\ PeakStations(0)[m] = 1
       /\ "phase_amplitude" \in DOMAIN picks[1][m]
       /\ "phase_polarity" \notin DOMAIN picks[1][m]

\* C18: detect_peaks with kernel 21 and K = 0 followed by extract_picks with
\* vmin 0.5, dt 0.01 s, anchor 2024-01-01T00:00:00.000 and phases P and S, on a
\* tensor of one batch element, 300 samples and one station whose only non-zero
\* value is 0.95 at index 150 of channel 1, gives exactly one pick:
\* phase_index 150, phase_time 1.500 s after the anchor, phase_score 0.950,
\* phase_type P.
C18_EndToEnd ==
  /\ pc # "error"
  /\ pc = "done" =>
       /\ Len(picks) = 1
       /\ Len(picks[1]) = 1
       /\ picks[1][1].phase_index = 150
       /\ picks[1][1].phase_time = [date |-> "2024-01-01", ms |-> 1500]
       /\ picks[1][1].phase_score = 950
       /\ picks[1][1].phase_type = "P"

\* C18 witness: the scenario has run to its end, detect_peaks having kept three
\* entries of which only one is the impulse.
C18_Witness ==
  /\ pc = "done"
  /\ scores = ScenarioScores
  /\ Len(topk_inds[<<0, 0, 0>>]) = 3
  /\ topk_scores[<<0, 0, 0>>][2] = 0
  /\ Len(picks[1]) >= 1

\* The m-th smallest of a finite set of integers.
NthSmallest(S, m) == CHOOSE x \in S : Cardinality({y \in S : y < x}) = m - 1

\* C26: a pick of batch element i made from a peak at time index p has
\* phase_index = p + begin_time_index[i] and phase_time = anchor_i + p * dt[i]
\* seconds (to the millisecond), so phase_time does not depend on
\* begin_time_index[i].
C26_IndexAndTime ==
  pc = "done" =>
    \A g \in DOMAIN topk_score :
      LET gp == PicksOfGroup(g)
          ps == {topk_index[g][n] : n \in Above(g)}
          off == IF IsNone(args.begin_time_index) THEN 0
                 ELSE args.begin_time_index[1][g[1] + 1]
      IN  \A m \in DOMAIN gp :
            /\ gp[m].phase_index = NthSmallest(ps, m) + off
            /\ gp[m].phase_time =
                 [date |-> ClaimedAnchor(g[1]).date,
                  ms |-> ClaimedAnchor(g[1]).ms
                           + (NthSmallest(ps, m) * DtOf(args, g[1])) \div 1000]

\* C26 witness: a pick of a batch element whose begin_time_index is not 0, made
\* from a peak at a time index that is not 0, with a non-epoch anchor.
C26_Witness ==
  /\ pc = "done"
  /\ ~IsNone(args.begin_time_index)
  /\ \E g \in DOMAIN topk_score :
       /\ args.begin_time_index[1][g[1] + 1] > 0
       /\ \E n \in Above(g) : topk_index[g][n] > 0
       /\ Len(PicksOfGroup(g)) >= 1
       /\ PicksOfGroup(g)[1].phase_time.date = "2024-01-01"
       /\ PicksOfGroup(g)[1].phase_time.ms > 0

\* The input channel the claim gives output class j of a tensor of C channels.
ClaimedChannel(j) == IF scores.shape[2] >= 2 THEN j + 1 ELSE 0

\* The time indices of the picks of batch element 0 labelled with phase name ph.
PickIndicesOfType(ph) ==
  {picks[1][m].phase_index : m \in {x \in DOMAIN picks[1] : picks[1][x].phase_type = ph}}

\* C25: for a tensor of C >= 2 class channels detect_peaks returns C - 1
\* classes, output class j holding entries of input channel j + 1 only, none of
\* channel 0; extract_picks labels output class j with phases[j]; the single
\* channel of a one-channel tensor is kept.
C25_BackgroundExcluded ==
  /\ pc \in {"detected", "done", "extract error"} =>
       /\ {g[2] : g \in DOMAIN topk_scores} =
            IF scores.shape[2] >= 2 THEN 0 .. (scores.shape[2] - 2) ELSE {0}
       /\ \A g \in DOMAIN topk_scores :
            \A n \in DOMAIN topk_scores[g] :
              topk_scores[g][n] =
                scores_kept[<<g[1], ClaimedChannel(g[2]), topk_inds[g][n], g[3]>>]
  /\ pc = "done" =>
       /\ \A m \in DOMAIN picks[1] :
            picks[1][m].phase_type \in
              {args.phases[g[2] + 1] : g \in DOMAIN topk_scores}
       /\ \A g \in DOMAIN topk_scores :
            PickIndicesOfType(args.phases[g[2] + 1]) =
              {t \in {topk_inds[g][n] : n \in DOMAIN topk_inds[g]} :
                 scores_kept[<<g[1], ClaimedChannel(g[2]), t, g[3]>>] > args.vmin}

\* C25 witness: a three-channel tensor whose channel 0 holds the largest value,
\* with a pick labelled S made from channel 2 and a pick labelled P from
\* channel 1, each smaller than channel 0 at its index.
C25_Witness ==
  /\ pc = "done"
  /\ scores.shape[2] = 3
  /\ \E m1, m2 \in DOMAIN picks[1] :
       /\ picks[1][m1].phase_type = "P"
       /\ picks[1][m2].phase_type = "S"
       /\ scores.val[<<0, 1, picks[1][m1].phase_index, 0>>] = 1
       /\ scores.val[<<0, 2, picks[1][m2].phase_index, 0>>] = 1
       /\ scores.val[<<0, 0, picks[1][m1].phase_index, 0>>] = 2
       /\ scores.val[<<0, 0, picks[1][m2].phase_index, 0>>] = 2

\* The input score tensor's value at the batch element, source channel, time
\* index and station of a pick of batch element 0, station 0.
InputOfPick(pk) ==
  scores.val[<<0, ClaimedChannel(ClassOfPick(pk)), pk.phase_index, 0>>]

\* The maximum of the suppression window of a pick's sample: the kernel samples
\* from t - pad, which is the centred window for an odd kernel.
WindowMaxOfPick(pk) ==
  WindowMax(0, ClaimedChannel(ClassOfPick(pk)), 0,
            pk.phase_index - kernel \div 2, pk.phase_index - kernel \div 2 + kernel - 1)

\* Number of entries, over all groups, whose score is strictly above vmin.
RECURSIVE EntriesAbove(_)
EntriesAbove(G) ==
  IF G = {} THEN 0
  ELSE LET g == CHOOSE x \in G : TRUE
       IN  Cardinality({n \in DOMAIN topk_scores[g] : topk_scores[g][n] > args.vmin})
             + EntriesAbove(G \ {g})

WindowOfASample ==
  /\ ~IsNone(args.waveform)
  /\ \A g \in DOMAIN topk_index : WindowAmpI(args, g[1], g[2]) >= 1

\* C29: the time indices detect_peaks returns for one (batch, class, station)
\* group are pairwise distinct and lie in 0 .. T - 1, so sorted they are
\* strictly increasing; and whenever int(window_amp[j] / dt[i]) >= 1 the range
\* [j1, j2) of every pick's amplitude holds at least the pick's own index
\* (j1 < j2 and j1 < T), so the maximum is defined and the call does not raise.
C29_AmplitudeWindowNonEmpty ==
  /\ pc \in {"detected", "done", "extract error"} =>
       \A g \in DOMAIN topk_inds :
         LET q == topk_inds[g]
             sorted == TopkIndexIJK(topk_inds, g)
         IN  /\ \A x, y \in DOMAIN q : x # y => q[x] # q[y]
             /\ \A x \in DOMAIN q : q[x] \in Range0(scores.shape[3])
             /\ \A x \in DOMAIN sorted : x < Len(sorted) => sorted[x] < sorted[x + 1]
  /\ (pc \in {"done", "extract error"} /\ WindowOfASample) =>
       /\ pc = "done"
       /\ \A g \in DOMAIN topk_index :
            LET sorted == TopkIndexIJK(topk_index, g)
                w == WindowAmpI(args, g[1], g[2])
            IN  \A n \in Above(g) :
                  /\ sorted[n] < AmpJ2(sorted, n, w)
                  /\ sorted[n] < scores.shape[3]
                  /\ sorted[n] \in AmpSlice(args, sorted, n, w)
       /\ \A m \in DOMAIN picks[1] : "phase_amplitude" \in DOMAIN picks[1][m]

\* C29 witness: a finished call with a waveform and a window of four samples in
\* which a pick's range is cut short by the next returned index of its group.
C29_Witness ==
  /\ pc = "done"
  /\ WindowOfASample
  /\ \E g \in DOMAIN topk_index :
       LET sorted == TopkIndexIJK(topk_index, g)
           w == WindowAmpI(args, g[1], g[2])
       IN  /\ w = 4
           /\ \E n \in Above(g) :
                /\ n < Len(sorted)
                /\ sorted[n + 1] = sorted[n] + 1
                /\ AmpSlice(args, sorted, n, w) = {sorted[n]}
  /\ \E m \in DOMAIN picks[1] : "phase_amplitude" \in DOMAIN picks[1][m]

\* ------------------------------------------------------------ claims: merge
\* The input files (names in the raw folder) that the written file p merges:
\* the partial files of event p[2][1] for the grouped merge, every .csv of the
\* folder for the flat merge.
InputsOf(p) ==
  IF call.fn = "merge_das_picks"
  THEN {q[2] : q \in {x \in DOMAIN fs : /\ x[1] = RawFolder
                                        /\ Len(x[2]) >= 3
                                        /\ x[2][1] = p[2][1]}}
  ELSE {q[2] : q \in {x \in DOMAIN fs : x[1] = RawFolder}}

\* The event ids that have partial files in the raw folder.
EventIds == {q[2][1] : q \in {x \in DOMAIN fs : x[1] = RawFolder /\ Len(x[2]) >= 3}}

\* Number of pick rows (lines after the first) of a set of raw files.
RECURSIVE RowCount(_)
RowCount(S) ==
  IF S = {} THEN 0
  ELSE LET n == CHOOSE x \in S : TRUE
       IN  Max2(0, Len(fs[<<RawFolder, n>>]) - 1) + RowCount(S \ {n})

\* C7: a group whose files together hold exactly min_picks pick rows is dropped
\* (no merged file is written for it); a group holding min_picks + 1 pick rows
\* is written to <identifier>.csv.
C7_MinPicksDrop ==
  call.fn = "merge_das_picks" =>
    \A k \in EventIds :
      LET p == <<call.out_path, <<k>>>>
          rows == RowCount(InputsOf(p))
      IN  /\ rows = call.min_picks => p \notin call.written
          /\ rows = call.min_picks + 1 => p \in call.written

\* Number of header rows of a list of lines.
HeaderCount(lines) == Cardinality({n \in DOMAIN lines : lines[n] = Header})

\* C8 (as stated): every merged file written by either discipline contains
\* exactly one header row, as its first line, also when all input files are
\* zero-byte or header-only.
C8_OneHeaderAlways ==
  \A p \in call.written :
    /\ Len(fs[p]) >= 1
    /\ fs[p][1] = Header
    /\ HeaderCount(fs[p]) = 1

\* C8 (amended): every merged file written contains exactly one header row, as
\* its first line, when at least one of its input files is non-empty (a
\* header-only file counts); when every input file is zero-byte, or there is no
\* input file, a file that is written (always by the flat merge, by the grouped
\* merge only under a negative min_picks) is empty, without a header row.
C8_OneHeaderIfNonEmptyInput ==
  \A p \in call.written :
    IF \E n \in InputsOf(p) : Len(fs[<<RawFolder, n>>]) > 0
    THEN /\ Len(fs[p]) >= 1
         /\ fs[p][1] = Header
         /\ HeaderCount(fs[p]) = 1
    ELSE /\ fs[p] = <<>>
         /\ call.fn = "merge_das_picks" => call.min_picks < 0

\* C8 witness: the grouped merge wrote a file for a group with a zero-byte,
\* a header-only or a second non-empty partial file.
C8_Witness ==
  /\ call.fn = "merge_das_picks"
  /\ \E p \in call.written :
       /\ Cardinality({n \in InputsOf(p) : Len(fs[<<RawFolder, n>>]) > 0}) = 2
       /\ \E n \in InputsOf(p) : Len(fs[<<RawFolder, n>>]) = 1

\* The data rows of the raw files S, file after file in ascending name order.
RECURSIVE RowsInNameOrder(_)
RowsInNameOrder(S) ==
  IF S = {} THEN <<>>
  ELSE LET n == CHOOSE x \in S : \A y \in S \ {x} : NameLess(x, y)
       IN  Rest(fs[<<RawFolder, n>>]) \o RowsInNameOrder(S \ {n})

\* C9: for both disciplines, the lines after the first of a written merged file
\* are the data rows of all its input files, in filename-sorted file order and
\* in their original order inside each file; a file with no data row adds none.
C9_RowsPreserved ==
  \A p \in call.written : Rest(fs[p]) = RowsInNameOrder(InputsOf(p))

\* C9 witness: a written file merging two files that hold different rows.
C9_Witness ==
  \E p \in call.written :
    \E n1, n2 \in InputsOf(p) :
      /\ NameLess(n1, n2)
      /\ Len(fs[<<RawFolder, n1>>]) >= 2
      /\ Len(fs[<<RawFolder, n2>>]) >= 2
      /\ fs[<<RawFolder, n1>>][2] # fs[<<RawFolder, n2>>][2]

\* Number of occurrences of line r in a list of lines.
Count(r, lines) == Cardinality({n \in DOMAIN lines : lines[n] = r})

RECURSIVE CountIn(_, _)
CountIn(r, S) ==
  IF S = {} THEN 0
  ELSE LET n == CHOOSE x \in S : TRUE
       IN  Count(r, Rest(fs[<<RawFolder, n>>])) + CountIn(r, S \ {n})

\* C10 (as stated): a pick row that occurs in more than one partial file of a
\* group, or twice in one file, occurs only once in the merged output.
C10_Deduplicated ==
  \A p \in call.written : \A r \in Rows : Count(r, fs[p]) <= 1

\* C10 (amended): nothing is de-duplicated: a pick row occurs in the merged
\* output as many times as it occurs in the data rows of the group's input files.
C10_EveryOccurrenceKept ==
  \A p \in call.written :
    \A r \in Rows : Count(r, Rest(fs[p])) = CountIn(r, InputsOf(p))

\* C10 witness: a written file that holds a row twice, the row of two of its
\* input files.
C10_Witness ==
  \E p \in call.written :
    \E r \in Rows :
      /\ Count(r, fs[p]) = 2
      /\ Cardinality({n \in InputsOf(p) : Count(r, fs[<<RawFolder, n>>]) = 1}) = 2

\* The merged files of the first merge: those of the output folder of the raw
\* folder (grouped merge) or the file beside the raw folder (flat merge).
FirstOutputs ==
  IF call.fn = "merge_das_picks"
  THEN {p \in DOMAIN fs : p[1] = OutPath(RawFolder, None)}
  ELSE {FlatOutput(RawFolder)}

\* The file that merging M = fs[p] alone writes.
AgainOutput(p) ==
  IF call.fn = "merge_das_picks"
  THEN <<OutPath(AgainFolder, None), p[2]>>
  ELSE FlatOutput(AgainFolder)

\* C11: for every group that merged to a file M, merging the group that
\* consists of M alone writes a file whose lines are those of M, one for one.
C11_Idempotent ==
  pc = "done" =>
    \A p \in FirstOutputs :
      /\ AgainOutput(p) \in DOMAIN fs
      /\ fs[AgainOutput(p)] = fs[p]

\* C11 witness: a file merged from two partial files holding rows was merged
\* again alone, by the grouped merge.
C11_Witness ==
  /\ pc = "done"
  /\ call.fn = "merge_das_picks"
  /\ \E p \in FirstOutputs :
       /\ Len(fs[p]) >= 3
       /\ Cardinality({q \in DOMAIN fs : /\ q[1] = RawFolder
                                         /\ q[2][1] = p[2][1]
                                         /\ Len(fs[q]) >= 2}) = 2
       /\ AgainOutput(p) \in call.written

\* C13: the content of every merged file depends only on the names and the
\* contents of the input files: a merge repeated over the same files, with the
\* same arguments, writes the same files with the same lines whatever the order
\* in which the directory listing returns the files.
C13_ListingOrderIrrelevant ==
  [][(call.fn # "none" /\ call'.fn = call.fn /\ call'.min_picks = call.min_picks)
       => (fs' = fs /\ call'.written = call.written)]_vars

\* C13 witness: the flat merge of three partial files that all hold rows, the
\* first and the last of them different rows.
C13_Witness ==
  /\ call.fn = "merge_seismic_picks"
  /\ \A n \in FileNames : <<RawFolder, n>> \in DOMAIN fs /\ Len(fs[<<RawFolder, n>>]) >= 2
  /\ fs[<<RawFolder, <<"1", "0", "0">>>>][2] # fs[<<RawFolder, <<"2", "0", "0">>>>][2]
  /\ Len(fs[FlatOutput(RawFolder)]) >= 4

\* The input files of the written or droppable file p that hold at least one line.
NonEmptyInputsOf(p) == {n \in InputsOf(p) : Len(fs[<<RawFolder, n>>]) > 0}

\* The merged file p holds exactly the rows of its non-empty input files, as if
\* the zero-byte ones were missing.
RowsOfRemaining(p) ==
  /\ Rest(fs[p]) = RowsInNameOrder(NonEmptyInputsOf(p))
  /\ RowCount(InputsOf(p)) = RowCount(NonEmptyInputsOf(p))
  /\ Len(fs[p]) = IF NonEmptyInputsOf(p) = {} THEN 0
                  ELSE 1 + RowCount(NonEmptyInputsOf(p))

\* C19 (as stated): for both disciplines a group of which any subset of the
\* partial files is missing or zero-byte is merged, those files counting as
\* zero picks: the merged rows are exactly those of the remaining files; a
\* group whose files are all missing or zero-byte is dropped by the grouped
\* merge.
C19_GroupOfEmptyFilesDropped ==
  call.fn # "none" =>
    /\ \A p \in call.written : RowsOfRemaining(p)
    /\ call.fn = "merge_das_picks" =>
         \A k \in {name[1] : name \in FileNames} :
           NonEmptyInputsOf(<<call.out_path, <<k>>>>) = {} =>
             <<call.out_path, <<k>>>> \notin call.written

\* C19 (amended): as stated, but a group whose files are all zero-byte is
\* dropped by the grouped merge only when min_picks is not negative; under a
\* negative min_picks it is written as an empty file.  A group without any file
\* is never written.
C19_DroppedUnlessNegativeMinPicks ==
  call.fn # "none" =>
    /\ \A p \in call.written : RowsOfRemaining(p)
    /\ call.fn = "merge_das_picks" =>
         \A k \in {name[1] : name \in FileNames} :
           LET p == <<call.out_path, <<k>>>>
           IN  NonEmptyInputsOf(p) = {} =>
                 /\ p \in call.written <=> (InputsOf(p) # {} /\ call.min_picks < 0)
                 /\ p \in call.written => fs[p] = <<>>

\* C19 witness: the grouped merge, with a min_picks that is not negative, wrote
\* the rows of a group with one zero-byte and one non-empty file and dropped a
\* group whose only file is zero-byte.
C19_Witness ==
  /\ call.fn = "merge_das_picks"
  /\ call.min_picks >= 0
  /\ <<RawFolder, <<"2", "0", "0">>>> \in DOMAIN fs
  /\ fs[<<RawFolder, <<"2", "0", "0">>>>] = <<>>
  /\ <<call.out_path, <<"2">>>> \notin call.written
  /\ <<call.out_path, <<"1">>>> \in call.written
  /\ Cardinality(InputsOf(<<call.out_path, <<"1">>>>)) = 2
  /\ Cardinality(NonEmptyInputsOf(<<call.out_path, <<"1">>>>)) = 1
  /\ Len(fs[<<call.out_path, <<"1">>>>]) >= 2

\* The input files of the written file p that hold at least one data row.
DataInputsOf(p) == {n \in InputsOf(p) : Len(fs[<<RawFolder, n>>]) >= 2}

\* The first name of the non-empty set S in ascending name order.
FirstName(S) == CHOOSE x \in S : \A y \in S \ {x} : NameLess(x, y)

\* C27: in both disciplines the header row of the merged output is taken from
\* the first file, in filename-sorted order, that has at least one data row;
\* zero-byte files and header-only files are never the source of the header.
C27_HeaderFromFirstDataFile ==
  \A p \in call.written :
    IF DataInputsOf(p) = {} THEN fs[p] = <<>>
    ELSE /\ Len(fs[p]) >= 1
         /\ fs[p][1] = fs[<<RawFolder, FirstName(DataInputsOf(p))>>][1]

\* What the code does instead: the header is the first line of the first file,
\* in filename-sorted order, that is not zero-byte, header-only files included.
C27_HeaderFromFirstNonEmptyFile ==
  \A p \in call.written :
    IF NonEmptyInputsOf(p) = {} THEN fs[p] = <<>>
    ELSE /\ Len(fs[p]) >= 1
         /\ fs[p][1] = fs[<<RawFolder, FirstName(NonEmptyInputsOf(p))>>][1]

\* The files a call of the merge `fn` reads: those its pattern matches in the
\* raw folder.
RerunInputs(f, fn) ==
  IF fn = "merge_das_picks" THEN {<<RawFolder, name>> : name \in GlobDas(f, RawFolder)}
  ELSE {<<RawFolder, name>> : name \in GlobCsv(f, RawFolder)}

\* A run of the merge leaves every file it read as it was, writes no file its
\* own pattern matches, and after the first run changes no file at all.
RerunStep ==
  /\ \A p \in RerunInputs(fs, call'.fn) : p \in DOMAIN fs' /\ fs'[p] = fs[p]
  /\ \A p \in call'.written : p \notin RerunInputs(fs', call'.fn)
  /\ RerunInputs(fs', call'.fn) = RerunInputs(fs, call'.fn)
  /\ call.fn # "none" => fs' = fs

C12_MergeAfterAllByMain ==
  (run.model = "phasenet_das" /\ merged_by # <<>>) =>
    /\ merged_by = <<0>>
    /\ \A q \in DOMAIN rank_pc :
         /\ todo[q] = <<>>
         /\ rank_pc[q] \in {"barrier", "merge", "done"}

\* C12 witness: a distributed run of two processes over two units ended with
\* the merge called by rank 0.
C12_Witness ==
  /\ run.model = "phasenet_das"
  /\ run.distributed
  /\ run.world_size = 2
  /\ Cardinality(DOMAIN latest) = 2
  /\ merged_by = <<0>>
  /\ \A q \in DOMAIN rank_pc : rank_pc[q] = "done"

\* C14: a unit of work whose latest processing yielded zero picks has a file
\* <file_name>.csv in the pick directory that holds no pick row (it is empty or
\* header-only), also when a file of that name with pick rows existed before.
C14_ZeroPickMarker ==
  \A n \in DOMAIN latest :
    latest[n] = 0 =>
      /\ <<PickPath, n>> \in DOMAIN fs
      /\ Len(fs[<<PickPath, n>>]) <= 1

\* C20: for every unit of work with at least one pick the caller's write
\* succeeds, every requested column being a field of the pick records, and the
\* unit's file holds one header row and one row per pick (sorted by phase_index,
\* or by channel_index and phase_index).
C20_UnitFileWritten ==
  \A n \in DOMAIN latest :
    latest[n] >= 1 =>
      /\ \A p \in DOMAIN rank_pc : rank_pc[p] # "error"
      /\ <<PickPath, n>> \in DOMAIN fs
      /\ Len(fs[<<PickPath, n>>]) = 1 + latest[n]

====
